---- MODULE Spec2Model ----
(***************************************************************************)
(* The AI request pipeline of the record-collection backend: the prompt    *)
(* sanitizer, the gated Express routes /api/find-manual, /api/setup-guide  *)
(* and /api/playlist, and the serverless api/playlist handler.             *)
(*                                                                         *)
(* Text is a sequence of one-character strings.  A JSON value is a record  *)
(* [t |-> type tag, v |-> payload].                                        *)
(***************************************************************************)
EXTENDS Integers, Sequences, FiniteSets, TLC

VARIABLES
    \* the sanitizer driven on bounded inputs
    sanPc,      \* position of the driver: "build", "called"
    sanS,       \* the text s built so far
    sanFrags,   \* number of fragments appended to s
    sanP,       \* the injection phrase p appended to s in the call
    sanCap,     \* maxLength of the call
    sanOut,     \* sanitizePromptInput(s ++ p, cap)
    sanOut2,    \* sanitizePromptInput(sanOut, cap)
    \* validateBase64Size driven on bounded inputs
    valPc,      \* position of the driver: "pick", "called"
    valValue,   \* the value of the call
    valMaxMB,   \* maxMB of the call
    valOut,     \* validateBase64Size(value, maxMB, fieldName)
    \* the server
    store,      \* the Map of middleware/rateLimit: ip -> [count, expiresAt]
    slStore,    \* the Map of api/_rateLimit: ip -> [count, expiresAt]
    perRoute,   \* history: a limiter that keeps one Map for each route
    now,        \* Date.now()
    ticks,      \* number of times the clock has advanced
    served,     \* number of requests received
    \* the request in flight
    pc,         \* "idle", "auth", "rateLimit", "handler", "awaitModel", "done"
    route,      \* the route of the request
    ip,         \* the caller's IP
    cred,       \* the Authorization header of the request
    userId,     \* req.auth.userId
    plan,       \* the plan of the user, as the subscription lookup finds it
    reqBody,    \* req.body
    prompt,     \* the request text inside the prompt given to generateContent
    modelCalls, \* calls of ai.models.generateContent made for the request
    modelText,  \* response.text of the model
    status,     \* the status of the response sent (0: none yet)
    respBody,   \* the JSON body of the response sent
    retryAfter, \* the Retry-After header of the response (0: none)
    responses,  \* number of responses sent for the request
    up,         \* the upstream calls of the request: started, pending, settled
    \* the rate limiter driven on bounded inputs
    lim,        \* its parameters, its Map, the clock, and the history of windows
    \* the image proxy driven on bounded inputs
    px,         \* the request, the URLs fetched, the outcome, the response
    \* GET /api/prices
    prc,        \* the cache, the clock, and the requests with their responses
    \* WantlistView
    wl          \* the wantlist state and the calls of handleRemove

sanVars == <<sanPc, sanS, sanFrags, sanP, sanCap, sanOut, sanOut2>>
valVars == <<valPc, valValue, valMaxMB, valOut>>
srvVars == <<store, slStore, perRoute, now, ticks, served>>
reqVars == <<pc, route, ip, cred, userId, plan, reqBody, prompt, modelCalls, modelText,
             status, respBody, retryAfter, responses, up>>
auxVars == <<lim, px, prc, wl>>

vars == <<sanVars, valVars, srvVars, reqVars, auxVars>>

\* The texts of a sequence joined in order.
RECURSIVE ConcatRange(_, _, _)
ConcatRange(ss, lo, hi) ==
    IF lo > hi THEN <<>>
    ELSE IF lo = hi THEN ss[lo]
    ELSE LET mid == (lo + hi) \div 2
         IN ConcatRange(ss, lo, mid) \o ConcatRange(ss, mid + 1, hi)

Concat(ss) == ConcatRange(ss, 1, Len(ss))

\* f with the value v under key k, and f without key k.
With(f, key, value) == [x \in DOMAIN f \cup {key} |-> IF x = key THEN value ELSE f[x]]
Without(f, key) == [x \in DOMAIN f \ {key} |-> f[x]]

Min(a, b) == IF a < b THEN a ELSE b
Max(a, b) == IF a > b THEN a ELSE b

(***************************************************************************)
(* Characters                                                              *)
(***************************************************************************)
\* The characters the regular-expression class \s and String.trim() treat
\* as white space (those the model's alphabet can hold).
WhiteSpace == {" ", "\t", "\n", "\r", "\f"}

\* The characters after which ^ matches under the m flag.
LineTerminator == {"\n", "\r"}

\* The backtick character U+0060, which a TLA+ string cannot hold.
Backtick == "U+0060"

\* Case folding of the i flag, on the ASCII letters.
ToLower(c) ==
    CASE c = "A" -> "a" [] c = "B" -> "b" [] c = "C" -> "c" [] c = "D" -> "d"
      [] c = "E" -> "e" [] c = "F" -> "f" [] c = "G" -> "g" [] c = "H" -> "h"
      [] c = "I" -> "i" [] c = "J" -> "j" [] c = "K" -> "k" [] c = "L" -> "l"
      [] c = "M" -> "m" [] c = "N" -> "n" [] c = "O" -> "o" [] c = "P" -> "p"
      [] c = "Q" -> "q" [] c = "R" -> "r" [] c = "S" -> "s" [] c = "T" -> "t"
      [] c = "U" -> "u" [] c = "V" -> "v" [] c = "W" -> "w" [] c = "X" -> "x"
      [] c = "Y" -> "y" [] c = "Z" -> "z" [] OTHER -> c

(***************************************************************************)
(* INJECTION_PATTERNS.  A pattern is [m |-> the ^ anchor with the m flag,  *)
(* alts |-> its expansions in the order the regex engine tries them].  An  *)
(* expansion is a sequence of elements: Lit(w) is the literal text w       *)
(* (lower-case, matched case-insensitively), SPlus and SStar are the       *)
(* white-space quantifiers \s+ and \s*.  (all\s+)? expands to the          *)
(* alternative with the group first and the alternative without it second. *)
(***************************************************************************)
Lit(w) == [q |-> "lit", w |-> w]
SPlus == [q |-> "s+", w |-> <<>>]
SStar == [q |-> "s*", w |-> <<>>]

W_ignore == <<"i","g","n","o","r","e">>
W_all == <<"a","l","l">>
W_previous == <<"p","r","e","v","i","o","u","s">>
W_above == <<"a","b","o","v","e">>
W_instructions == <<"i","n","s","t","r","u","c","t","i","o","n","s">>
W_disregard == <<"d","i","s","r","e","g","a","r","d">>
W_you == <<"y","o","u">>
W_are == <<"a","r","e">>
W_now == <<"n","o","w">>
W_new == <<"n","e","w">>
W_system == <<"s","y","s","t","e","m">>
W_assistant == <<"a","s","s","i","s","t","a","n","t">>
W_user == <<"u","s","e","r">>
W_human == <<"h","u","m","a","n">>

INJECTION_PATTERNS ==
    << [m |-> FALSE, alts |->
          << <<Lit(W_ignore), SPlus, Lit(W_all), SPlus, Lit(W_previous), SPlus,
               Lit(W_instructions)>>,
             <<Lit(W_ignore), SPlus, Lit(W_previous), SPlus, Lit(W_instructions)>> >>],
       [m |-> FALSE, alts |->
          << <<Lit(W_ignore), SPlus, Lit(W_all), SPlus, Lit(W_above), SPlus,
               Lit(W_instructions)>>,
             <<Lit(W_ignore), SPlus, Lit(W_above), SPlus, Lit(W_instructions)>> >>],
       [m |-> FALSE, alts |->
          << <<Lit(W_disregard), SPlus, Lit(W_all), SPlus, Lit(W_previous)>>,
             <<Lit(W_disregard), SPlus, Lit(W_previous)>> >>],
       [m |-> FALSE, alts |-> << <<Lit(W_you), SPlus, Lit(W_are), SPlus, Lit(W_now)>> >>],
       [m |-> FALSE, alts |-> << <<Lit(W_new), SPlus, Lit(W_instructions \o <<":">>)>> >>],
       [m |-> TRUE, alts |-> << <<Lit(W_system), SStar, Lit(<<":">>)>> >>],
       [m |-> TRUE, alts |-> << <<Lit(W_assistant), SStar, Lit(<<":">>)>> >>],
       [m |-> TRUE, alts |-> << <<Lit(W_user), SStar, Lit(<<":">>)>> >>],
       [m |-> TRUE, alts |-> << <<Lit(W_human), SStar, Lit(<<":">>)>> >>] >>

(***************************************************************************)
(* Regular-expression matching, as String.replace with a g-flag pattern    *)
(* performs it.                                                            *)
(***************************************************************************)
\* The least index of i..Len(s) whose character satisfies Test, or Len(s)+1.
FirstFrom(s, i, Test(_)) ==
    LET hits == {j \in i..Len(s) : Test(s[j])}
    IN IF hits = {} THEN Len(s) + 1 ELSE CHOOSE j \in hits : \A h \in hits : j <= h

\* The first index >= i of s that holds no white space (Len(s)+1 if none).
SkipWS(s, i) == FirstFrom(s, i, LAMBDA c : c \notin WhiteSpace)

\* The literal w at index i of s, compared without regard to case: the
\* index after it, or 0.
MatchLit(w, s, i) ==
    IF i + Len(w) - 1 <= Len(s)
       /\ \A j \in 1..Len(w) : s[i + j - 1] = w[j] \/ ToLower(s[i + j - 1]) = w[j]
    THEN i + Len(w) ELSE 0

\* Elements k.. of expansion e matched against s from index i: the index
\* after the match, or 0 when there is none.  A quantifier is greedy; every
\* quantifier of INJECTION_PATTERNS is followed by a literal that starts
\* with no white space, so giving back white space never yields another
\* match.
RECURSIVE MatchFrom(_, _, _, _)
MatchFrom(e, k, s, i) ==
    IF k > Len(e) THEN i
    ELSE IF e[k].q = "s+"
         THEN IF i <= Len(s) /\ s[i] \in WhiteSpace
              THEN MatchFrom(e, k + 1, s, SkipWS(s, i))
              ELSE 0
    ELSE IF e[k].q = "s*"
         THEN MatchFrom(e, k + 1, s, SkipWS(s, i))
    ELSE IF MatchLit(e[k].w, s, i) > 0
         THEN MatchFrom(e, k + 1, s, MatchLit(e[k].w, s, i))
         ELSE 0

\* The expansions of a pattern tried in order from alternative a.
RECURSIVE MatchAlts(_, _, _, _)
MatchAlts(alts, a, s, i) ==
    IF a > Len(alts) THEN 0
    ELSE IF MatchFrom(alts[a], 1, s, i) > 0 THEN MatchFrom(alts[a], 1, s, i)
    ELSE MatchAlts(alts, a + 1, s, i)

\* Pattern pat matched at index i of s: the index after the match, or 0.
MatchAt(pat, s, i) ==
    IF pat.m /\ ~(i = 1 \/ s[i - 1] \in LineTerminator) THEN 0
    ELSE MatchAlts(pat.alts, 1, s, i)

\* For every index of s, the index after the match of pat there, or 0.
MatchEnds(pat, s) == [j \in 1..Len(s) |-> MatchAt(pat, s, j)]

\* The least index >= i with a match, or 0.
NextMatch(ends, i) ==
    IF \A j \in i..Len(ends) : ends[j] = 0 THEN 0
    ELSE CHOOSE j \in i..Len(ends) : ends[j] > 0 /\ \A h \in i..(j - 1) : ends[h] = 0

\* s.replace(pat, ''): every match removed, scanning left to right and
\* resuming after each match; the text is not rescanned.
RECURSIVE ReplaceFrom(_, _, _)
ReplaceFrom(s, ends, i) ==
    IF NextMatch(ends, i) = 0 THEN SubSeq(s, i, Len(s))
    ELSE SubSeq(s, i, NextMatch(ends, i) - 1) \o ReplaceFrom(s, ends, ends[NextMatch(ends, i)])

ReplacePattern(pat, s) == ReplaceFrom(s, MatchEnds(pat, s), 1)

\* cleaned.replace(/`/g, '')
StripBackticks(s) == SelectSeq(s, LAMBDA c : c # Backtick)

\* The length of the run of newlines of s that starts at index i.
NewlineRun(s, i) == FirstFrom(s, i, LAMBDA c : c # "\n") - i

\* The least index >= i of s where a run of three or more newlines starts,
\* or 0.
NextRun(s, i) ==
    IF \A j \in i..Len(s) : NewlineRun(s, j) < 3 THEN 0
    ELSE CHOOSE j \in i..Len(s) :
            NewlineRun(s, j) >= 3 /\ \A h \in i..(j - 1) : NewlineRun(s, h) < 3

\* cleaned.replace(/\n{3,}/g, '\n\n')
RECURSIVE CollapseFrom(_, _)
CollapseFrom(s, i) ==
    IF NextRun(s, i) = 0 THEN SubSeq(s, i, Len(s))
    ELSE SubSeq(s, i, NextRun(s, i) - 1) \o <<"\n", "\n">>
         \o CollapseFrom(s, NextRun(s, i) + NewlineRun(s, NextRun(s, i)))

CollapseNewlines(s) == CollapseFrom(s, 1)

\* for (const pattern of INJECTION_PATTERNS) cleaned = cleaned.replace(pattern, '')
RECURSIVE RemovePatternsFrom(_, _)
RemovePatternsFrom(s, k) ==
    IF k > Len(INJECTION_PATTERNS) THEN s
    ELSE RemovePatternsFrom(ReplacePattern(INJECTION_PATTERNS[k], s), k + 1)

RemovePatterns(s) == RemovePatternsFrom(s, 1)

\* s.slice(0, n)
Slice0(s, n) ==
    IF n >= 0 THEN SubSeq(s, 1, Min(n, Len(s)))
    ELSE SubSeq(s, 1, Max(Len(s) + n, 0))

\* EnforceLimit without the cut.
EnforceLimitNoCut(s, maxLength) == s

\* if (cleaned.length > maxLength) cleaned = cleaned.slice(0, maxLength)
EnforceLimit(s, maxLength) ==
    IF Len(s) > maxLength THEN Slice0(s, maxLength) ELSE s

\* The greatest index <= j of s that holds no white space (0 if none).
TrimEndIdx(s, j) ==
    LET hits == {k \in 1..j : s[k] \notin WhiteSpace}
    IN IF hits = {} THEN 0 ELSE CHOOSE k \in hits : \A h \in hits : h <= k

\* s.trim()
Trim(s) == SubSeq(s, SkipWS(s, 1), TrimEndIdx(s, Len(s)))

sanitizePromptInput(input, maxLength) ==
    Trim(EnforceLimit(RemovePatterns(CollapseNewlines(StripBackticks(input))), maxLength))

(***************************************************************************)
(* JSON values, as JSON.parse yields them and as a request body holds      *)
(* them: [t |-> "str" | "num" | "bool" | "null" | "undef" | "arr" | "obj", *)
(* v |-> the text, the number, the truth value, the sequence of elements,  *)
(* or the function from keys to values].  A "blob" is a string given by    *)
(* its length alone: a base64 payload of megabytes.                        *)
(***************************************************************************)
Str(s) == [t |-> "str", v |-> s]
Blob(n) == [t |-> "blob", v |-> n]
Num(n) == [t |-> "num", v |-> n]
Null == [t |-> "null", v |-> 0]
Undefined == [t |-> "undef", v |-> 0]
Arr(a) == [t |-> "arr", v |-> a]
Obj(f) == [t |-> "obj", v |-> f]

\* o.k for a value o that is neither null nor undefined (on those the
\* access throws a TypeError: see Nullish).
Get(o, k) == IF o.t = "obj" /\ k \in DOMAIN o.v THEN o.v[k] ELSE Undefined

Nullish(x) == x.t \in {"null", "undef"}

\* The truthiness of a value (!x is its negation).
Truthy(x) ==
    CASE x.t = "str" -> Len(x.v) > 0
      [] x.t = "blob" -> x.v > 0
      [] x.t = "num" -> x.v # 0
      [] x.t = "bool" -> x.v
      [] x.t \in {"null", "undef"} -> FALSE
      [] OTHER -> TRUE

IsString(x) == x.t \in {"str", "blob"}
IsArray(x) == x.t = "arr"

\* The decimal digits of a natural number.
Digit(n) ==
    CASE n = 0 -> "0" [] n = 1 -> "1" [] n = 2 -> "2" [] n = 3 -> "3" [] n = 4 -> "4"
      [] n = 5 -> "5" [] n = 6 -> "6" [] n = 7 -> "7" [] n = 8 -> "8" [] OTHER -> "9"

RECURSIVE NatText(_)
NatText(n) == IF n < 10 THEN <<Digit(n)>> ELSE NatText(n \div 10) \o <<Digit(n % 10)>>

T_null == <<"n","u","l","l">>
T_undefined == <<"u","n","d","e","f","i","n","e","d">>
T_true == <<"t","r","u","e">>
T_false == <<"f","a","l","s","e">>
T_objectObject == <<"[","o","b","j","e","c","t"," ","O","b","j","e","c","t","]">>

\* String(x), and the conversion a template literal `${x}` applies.
RECURSIVE ToStringJS(_)
RECURSIVE JoinJS(_, _)
JoinJS(a, i) ==
    IF i > Len(a) THEN <<>>
    ELSE (IF Nullish(a[i]) THEN <<>> ELSE ToStringJS(a[i]))
         \o (IF i < Len(a) THEN <<",">> ELSE <<>>) \o JoinJS(a, i + 1)
ToStringJS(x) ==
    CASE x.t = "str" -> x.v
      [] x.t = "num" -> NatText(x.v)
      [] x.t = "bool" -> (IF x.v THEN T_true ELSE T_false)
      [] x.t = "null" -> T_null
      [] x.t = "undef" -> T_undefined
      [] x.t = "arr" -> JoinJS(x.v, 1)
      [] OTHER -> T_objectObject

\* response.text as the model-inference collaborator returns it: absent or
\* empty, text that is no JSON, or the JSON text of a value.  RawNone: the
\* call has not returned.
RawNone == [k |-> "none", v |-> Undefined]
RawAbsent == [k |-> "absent", v |-> Undefined]
RawGarbage == [k |-> "garbage", v |-> Undefined]
RawJson(x) == [k |-> "json", v |-> x]

\* JSON.parse(response.text || '{}'): ok is FALSE where it throws.
ParseOrEmpty(raw) ==
    CASE raw.k = "absent" -> [ok |-> TRUE, v |-> Obj(<<>>)]
      [] raw.k = "garbage" -> [ok |-> FALSE, v |-> Undefined]
      [] OTHER -> [ok |-> TRUE, v |-> raw.v]

\* The elements of a sequence that satisfy Test, in order.
Filter(a, Test(_)) == SelectSeq(a, Test)

\* What a handler does at a step: it sends a response, or it calls
\* ai.models.generateContent with a prompt; calls is the number of calls of
\* generateContent the step makes.
Reply(st, b) == [act |-> "reply", status |-> st, body |-> b, prompt |-> <<>>, calls |-> 0]
Invoke(pr) == [act |-> "invoke", status |-> 0, body |-> <<>>, prompt |-> pr, calls |-> 1]

\* { error: msg }
Err(msg) == [error |-> msg]

\* A piece of request text inside a prompt: the field it comes from, the
\* text put into the prompt, and whether that text is a result of
\* sanitizePromptInput.
Piece(f, txt, san) == [field |-> f, text |-> txt, sanitized |-> san]

(***************************************************************************)
(* POST /api/find-manual                                                   *)
(***************************************************************************)
T_searchPrefix ==
    <<"h","t","t","p","s",":","/","/","w","w","w",".","g","o","o","g","l","e",".","c","o","m",
      "/","s","e","a","r","c","h","?","q","=">>
T_ownerManualPdf ==
    <<" ","o","w","n","e","r"," ","m","a","n","u","a","l"," ","P","D","F">>
T_high == <<"h","i","g","h">>
T_medium == <<"m","e","d","i","u","m">>
T_low == <<"l","o","w">>

\* encodeURIComponent on one character: the unreserved characters stay, the
\* others become the percent-escape of their UTF-8 byte.
PercentEncode(c) ==
    CASE c = " " -> <<"%","2","0">>
      [] c = "\n" -> <<"%","0","A">>
      [] c = "\r" -> <<"%","0","D">>
      [] c = "\t" -> <<"%","0","9">>
      [] c = "\f" -> <<"%","0","C">>
      [] c = ":" -> <<"%","3","A">>
      [] c = "/" -> <<"%","2","F">>
      [] c = "?" -> <<"%","3","F">>
      [] c = "=" -> <<"%","3","D">>
      [] c = "%" -> <<"%","2","5">>
      [] c = "[" -> <<"%","5","B">>
      [] c = "]" -> <<"%","5","D">>
      [] c = "," -> <<"%","2","C">>
      [] c = Backtick -> <<"%","6","0">>
      [] OTHER -> <<c>>

encodeURIComponent(s) == Concat([i \in 1..Len(s) |-> PercentEncode(s[i])])

buildSearchUrl(brand, model) ==
    T_searchPrefix \o encodeURIComponent(brand \o <<" ">> \o model \o T_ownerManualPdf)

\* searchFallback of the request (defined once brand and model are valid).
FM_SearchFallback(b) ==
    buildSearchUrl(Trim(Get(b, "brand").v), Trim(Get(b, "model").v))

\* The request fields of the prompt, in the order of their lines.
FM_Fields == <<"brand", "model", "category", "manual_search_query">>

\* The cap of each field's call of sanitizePromptInput.
FM_Cap(f) ==
    CASE f = "brand" -> 100 [] f = "model" -> 200 [] f = "category" -> 50 [] OTHER -> 300

\* safeBrand, safeModel, safeCategory and safeQuery: brand.trim() and
\* model.trim() sanitized; category and manual_search_query, where truthy,
\* converted by String, trimmed and sanitized, and '' otherwise.
FM_Safe(b, f) ==
    IF Truthy(Get(b, f))
    THEN sanitizePromptInput(Trim(ToStringJS(Get(b, f))), FM_Cap(f))
    ELSE <<>>

\* The request text of the prompt, for a request whose brand and model are
\* valid: the brand and model lines, the category and query hints where
\* they are not empty, and the search URL.
FM_Prompt(b) ==
    SelectSeq([i \in 1..Len(FM_Fields) |-> Piece(FM_Fields[i], FM_Safe(b, FM_Fields[i]), TRUE)],
              LAMBDA p : p.field \in {"brand", "model"} \/ p.text # <<>>)
    \o <<Piece("search_url", FM_SearchFallback(b), FALSE)>>

\* typeof x !== 'string' || !x || !x.trim()
FM_MissingOrEmpty(x) == ~Truthy(x) \/ ~IsString(x) \/ Trim(x.v) = <<>>

\* FM_Start with the model field validated only after the call of
\* generateContent.
FM_StartCallsFirst(b) ==
    IF FM_MissingOrEmpty(Get(b, "brand"))
    THEN Reply(400, Err("Missing or empty brand"))
    ELSE IF FM_MissingOrEmpty(Get(b, "model"))
    THEN [Reply(400, Err("Missing or empty model")) EXCEPT !.calls = 1]
    ELSE Invoke(FM_Prompt(b))

\* The handler from the destructuring of req.body to the call of
\* generateContent.
FM_Start(b) ==
    IF FM_MissingOrEmpty(Get(b, "brand"))
    THEN Reply(400, Err("Missing or empty brand"))
    ELSE IF FM_MissingOrEmpty(Get(b, "model"))
    THEN Reply(400, Err("Missing or empty model"))
    ELSE Invoke(FM_Prompt(b))

\* typeof u === 'string' && u.trim().length > 0
NonBlankString(u) == IsString(u) /\ Trim(u.v) # <<>>

\* FM_Confidence with the three values compared without regard to case.
FM_ConfidenceAnyCase(c) ==
    IF IsString(c) /\ [i \in 1..Len(c.v) |-> ToLower(c.v[i])] \in {T_high, T_medium, T_low}
    THEN c ELSE Str(T_low)

\* ['high', 'medium', 'low'].includes(data.confidence) ? data.confidence : 'low'
FM_Confidence(c) ==
    IF IsString(c) /\ c.v \in {T_high, T_medium, T_low} THEN c ELSE Str(T_low)

\* FM_AlternativeUrls without the cut to three.
FM_AlternativeUrlsUncut(x) ==
    IF IsArray(x) THEN Arr(Filter(x.v, NonBlankString)) ELSE Arr(<<>>)

\* data.alternative_urls filtered and cut to three.
FM_AlternativeUrls(x) ==
    IF IsArray(x) THEN Arr(Slice0(Filter(x.v, NonBlankString), 3)) ELSE Arr(<<>>)

\* FM_Fallback without the search URL.
FM_FallbackNoUrl(searchFallback) ==
    [manual_url |-> Null, source |-> Str(<<>>), confidence |-> Str(T_low),
     alternative_urls |-> Arr(<<>>), search_url |-> Str(<<>>)]

\* The response to the parse failure.
FM_Fallback(searchFallback) ==
    [manual_url |-> Null, source |-> Str(<<>>), confidence |-> Str(T_low),
     alternative_urls |-> Arr(<<>>), search_url |-> Str(searchFallback)]

\* The handler from the return of generateContent to its response.
FM_Finish(b, raw) ==
    LET searchFallback == FM_SearchFallback(b)
        parsed == ParseOrEmpty(raw)
        data == parsed.v
    IN IF ~parsed.ok THEN Reply(200, FM_Fallback(searchFallback))
       ELSE IF Nullish(data) THEN Reply(500, Err("Failed to find manual"))
       ELSE
         LET mu == Get(data, "manual_url")
             src == Get(data, "source")
             su == Get(data, "search_url")
         IN Reply(200,
              [manual_url |-> IF NonBlankString(mu) THEN Str(Trim(mu.v)) ELSE Null,
               source |-> IF IsString(src) THEN src ELSE Str(<<>>),
               confidence |-> FM_Confidence(Get(data, "confidence")),
               alternative_urls |-> FM_AlternativeUrls(Get(data, "alternative_urls")),
               search_url |-> IF NonBlankString(su) THEN Str(Trim(su.v))
                              ELSE Str(searchFallback)])

(***************************************************************************)
(* Object keys.  A JSON object lists its keys in the order of KeyOrder.    *)
(***************************************************************************)
KeyOrder ==
    <<"id", "artist", "title", "genre", "tags", "tracklist", "impedance", "note">>

KeyText(k) ==
    CASE k = "id" -> <<"i","d">>
      [] k = "artist" -> <<"a","r","t","i","s","t">>
      [] k = "title" -> <<"t","i","t","l","e">>
      [] k = "genre" -> <<"g","e","n","r","e">>
      [] k = "tags" -> <<"t","a","g","s">>
      [] k = "tracklist" -> <<"t","r","a","c","k","l","i","s","t">>
      [] k = "impedance" -> <<"i","m","p","e","d","a","n","c","e">>
      [] OTHER -> <<"n","o","t","e">>

\* Object.keys(o)
Keys(o) == SelectSeq(KeyOrder, LAMBDA k : k \in DOMAIN o.v)

\* The escape JSON.stringify applies to one character of a string.
JsonEscape(c) ==
    CASE c = "\"" -> <<"\\", "\"">>
      [] c = "\\" -> <<"\\", "\\">>
      [] c = "\n" -> <<"\\", "n">>
      [] c = "\r" -> <<"\\", "r">>
      [] c = "\t" -> <<"\\", "t">>
      [] c = "\f" -> <<"\\", "f">>
      [] OTHER -> <<c>>

JsonEscapeAll(s) == Concat([i \in 1..Len(s) |-> JsonEscape(s[i])])

\* JSON.stringify(x): a property whose value is undefined is left out, an
\* undefined array element is written null.
RECURSIVE JSONStringify(_)
RECURSIVE StringifyElems(_, _)
RECURSIVE StringifyProps(_, _, _)
StringifyElems(a, i) ==
    IF i > Len(a) THEN <<>>
    ELSE (IF a[i].t = "undef" THEN T_null ELSE JSONStringify(a[i]))
         \o (IF i < Len(a) THEN <<",">> ELSE <<>>) \o StringifyElems(a, i + 1)
StringifyProps(o, ks, i) ==
    IF i > Len(ks) THEN <<>>
    ELSE <<"\"">> \o KeyText(ks[i]) \o <<"\"", ":">> \o JSONStringify(o.v[ks[i]])
         \o (IF i < Len(ks) THEN <<",">> ELSE <<>>) \o StringifyProps(o, ks, i + 1)
JSONStringify(x) ==
    CASE x.t = "str" -> <<"\"">> \o JsonEscapeAll(x.v) \o <<"\"">>
      [] x.t = "num" -> NatText(x.v)
      [] x.t = "bool" -> (IF x.v THEN T_true ELSE T_false)
      [] x.t \in {"null", "undef"} -> T_null
      [] x.t = "arr" -> <<"[">> \o StringifyElems(x.v, 1) \o <<"]">>
      [] OTHER -> <<"{">>
                  \o StringifyProps(x, SelectSeq(Keys(x), LAMBDA k : x.v[k].t # "undef"), 1)
                  \o <<"}">>

(***************************************************************************)
(* POST /api/setup-guide                                                   *)
(***************************************************************************)
MAX_GEAR == 20
MAX_SPECS == 10
MAX_TIPS == 10
MAX_WARNINGS == 10

\* String(x || '').trim()
StringOrEmptyTrim(x) == IF Truthy(x) THEN Trim(ToStringJS(x)) ELSE <<>>

\* String(x || '')
StringOrEmpty(x) == IF Truthy(x) THEN ToStringJS(x) ELSE <<>>

\* One element of gearList.
SG_GearItem(g) ==
    [category |-> StringOrEmptyTrim(Get(g, "category")),
     brand |-> StringOrEmptyTrim(Get(g, "brand")),
     model |-> StringOrEmptyTrim(Get(g, "model")),
     specs |-> LET s == Get(g, "specs")
               IN IF Truthy(s) /\ s.t \in {"obj", "arr"} THEN s ELSE Undefined]

SG_GearList(gear) ==
    LET cut == Slice0(gear.v, MAX_GEAR)
    IN [i \in 1..Len(cut) |-> SG_GearItem(cut[i])]

\* The text `${k}: ${v}` of the first ten entries of specs, one piece each.
SG_SpecPieces(specs) ==
    IF specs.t # "obj" THEN <<>>
    ELSE LET ks == Slice0(Keys(specs), MAX_SPECS)
         IN [i \in 1..Len(ks) |->
               Piece("gear.specs",
                     KeyText(ks[i]) \o <<":", " ">> \o ToStringJS(specs.v[ks[i]]), FALSE)]

\* The request text of one gear line of the prompt.
SG_LinePieces(g) ==
    <<Piece("gear.brand", g.brand, FALSE), Piece("gear.model", g.model, FALSE),
      Piece("gear.category", g.category, FALSE)>> \o SG_SpecPieces(g.specs)

RECURSIVE SG_Pieces(_, _)
SG_Pieces(gearList, i) ==
    IF i > Len(gearList) THEN <<>>
    ELSE SG_LinePieces(gearList[i]) \o SG_Pieces(gearList, i + 1)

\* The least index (from 0) of a gear item without brand or model, or -1.
SG_FirstInvalid(gearList) ==
    LET bad == {i \in 1..Len(gearList) :
                   gearList[i].brand = <<>> \/ gearList[i].model = <<>>}
    IN IF bad = {} THEN -1 ELSE (CHOOSE i \in bad : \A j \in bad : i <= j) - 1

SG_Start(b) ==
    LET gear == Get(b, "gear")
    IN IF ~IsArray(gear) THEN Reply(400, Err("Missing gear array"))
       ELSE IF Len(gear.v) < 2
       THEN Reply(400, Err("At least 2 gear items are required to generate a setup guide"))
       ELSE IF \E i \in 1..Min(Len(gear.v), MAX_GEAR) : Nullish(gear.v[i])
       THEN Reply(500, Err("Failed to generate setup guide"))
       ELSE LET gearList == SG_GearList(gear)
                bad == SG_FirstInvalid(gearList)
            IN IF bad >= 0
               THEN Reply(400, Err(<<"Gear item at index ", NatText(bad),
                                     " is missing brand or model">>))
               ELSE Invoke(SG_Pieces(gearList, 1))

\* typeof c.from === 'string' && typeof c.to === 'string'
SG_IsConnection(c) == IsString(Get(c, "from")) /\ IsString(Get(c, "to"))

SG_Connection(c) ==
    Obj([from |-> Str(ToStringJS(Get(c, "from"))),
         to |-> Str(ToStringJS(Get(c, "to"))),
         cable_type |-> Str(StringOrEmpty(Get(c, "cable_type"))),
         connection_type |-> Str(StringOrEmpty(Get(c, "connection_type"))),
         notes |-> Str(StringOrEmpty(Get(c, "notes")))])

\* typeof s.gear === 'string' && typeof s.setting === 'string'
SG_IsSetting(s) == IsString(Get(s, "gear")) /\ IsString(Get(s, "setting"))

SG_Setting(s) ==
    Obj([gear |-> Str(ToStringJS(Get(s, "gear"))),
         setting |-> Str(ToStringJS(Get(s, "setting"))),
         recommended_value |-> Str(StringOrEmpty(Get(s, "recommended_value"))),
         explanation |-> Str(StringOrEmpty(Get(s, "explanation")))])

\* The strings of an array, in order (the empty array for any other value).
StringsOf(x) == IF IsArray(x) THEN Filter(x.v, IsString) ELSE <<>>

SG_SignalChain(x) == StringsOf(x)
SG_Tips(x) == Slice0(StringsOf(x), MAX_TIPS)
SG_Warnings(x) == Slice0(StringsOf(x), MAX_WARNINGS)

SG_Connections(x) ==
    IF IsArray(x)
    THEN LET kept == Filter(x.v, SG_IsConnection)
         IN [i \in 1..Len(kept) |-> SG_Connection(kept[i])]
    ELSE <<>>

SG_Settings(x) ==
    IF IsArray(x)
    THEN LET kept == Filter(x.v, SG_IsSetting)
         IN [i \in 1..Len(kept) |-> SG_Setting(kept[i])]
    ELSE <<>>

\* The filter callback reads a property of each element: on a null element
\* the read throws a TypeError.
SG_FilterThrows(x) == IsArray(x) /\ \E i \in 1..Len(x.v) : Nullish(x.v[i])

SG_Finish(b, raw) ==
    LET parsed == ParseOrEmpty(raw)
        data == parsed.v
    IN IF ~parsed.ok THEN Reply(500, Err("Failed to parse AI response"))
       ELSE IF Nullish(data) THEN Reply(500, Err("Failed to generate setup guide"))
       ELSE IF SG_FilterThrows(Get(data, "connections"))
               \/ SG_FilterThrows(Get(data, "settings"))
       THEN Reply(500, Err("Failed to generate setup guide"))
       ELSE
         LET signalChain == SG_SignalChain(Get(data, "signal_chain"))
             connections == SG_Connections(Get(data, "connections"))
         IN IF Len(signalChain) = 0 /\ Len(connections) = 0
            THEN Reply(500, Err("AI returned an incomplete setup guide. Please try again."))
            ELSE Reply(200,
                   [signal_chain |-> Arr(signalChain),
                    connections |-> Arr(connections),
                    settings |-> Arr(SG_Settings(Get(data, "settings"))),
                    tips |-> Arr(SG_Tips(Get(data, "tips"))),
                    warnings |-> Arr(SG_Warnings(Get(data, "warnings")))])

(***************************************************************************)
(* POST /api/playlist (Express) and the serverless api/playlist handler    *)
(***************************************************************************)
MAX_ALBUMS == 200
MAX_MOOD == 1000
MAX_TYPE == 50
MAX_NAME == 60
NAME_KEEP == 57

T_album == <<"a","l","b","u","m">>
T_side == <<"s","i","d","e">>
T_song == <<"s","o","n","g">>
T_CrateMix == <<"C","r","a","t","e"," ","M","i","x">>
T_dots == <<".",".",".">>

\* validateStringLength(value, maxLength, fieldName): the error message, or
\* <<>> for null.
validateStringLength(value, maxLength, fieldName) ==
    IF ~IsString(value) THEN <<>>
    ELSE IF Len(value.v) > maxLength
    THEN <<fieldName, " exceeds maximum length of ", maxLength, " characters">>
    ELSE <<>>

\* value.length of a string.
StrLength(x) == IF x.t = "blob" THEN x.v ELSE Len(x.v)

\* The comparison of validateBase64Size with >= in place of >.
validateBase64SizeAtCap(value, maxMB, fieldName) ==
    IF ~IsString(value) THEN <<>>
    ELSE IF StrLength(value) * 3 >= maxMB * (4 * (1024 * 1024))
    THEN <<fieldName, " exceeds maximum size of ", maxMB, "MB">>
    ELSE <<>>

\* validateBase64Size(value, maxMB, fieldName): the error message, or <<>>
\* for null.  decodedMB is (length * 3) / 4 / (1024 * 1024); the product is
\* below 2^53 and both divisors are powers of two, so no step of the
\* floating-point computation rounds and decodedMB > maxMB is the comparison
\* of length * 3 with maxMB * 4 * 1024 * 1024.
validateBase64Size(value, maxMB, fieldName) ==
    IF ~IsString(value) THEN <<>>
    ELSE IF StrLength(value) * 3 > maxMB * (4 * (1024 * 1024))
    THEN <<fieldName, " exceeds maximum size of ", maxMB, "MB">>
    ELSE <<>>

\* One element of simplifiedCollection (Express: with tags).
PL_Simplify(a) ==
    Obj([id |-> Get(a, "id"), artist |-> Get(a, "artist"), title |-> Get(a, "title"),
         genre |-> Get(a, "genre"), tags |-> Get(a, "tags"),
         tracklist |-> Get(a, "tracklist")])

\* One element of simplifiedCollection (serverless: without tags).
PLS_Simplify(a) ==
    Obj([id |-> Get(a, "id"), artist |-> Get(a, "artist"), title |-> Get(a, "title"),
         genre |-> Get(a, "genre"), tracklist |-> Get(a, "tracklist")])

\* albums.slice(0, MAX_ALBUMS)
PL_Cut(albums) == Slice0(albums.v, MAX_ALBUMS)

\* a.id of a null element throws a TypeError inside map.
PL_MapThrows(albums) == \E i \in 1..Len(PL_Cut(albums)) : Nullish(PL_Cut(albums)[i])

PL_Collection(albums) ==
    LET cut == PL_Cut(albums) IN Arr([i \in 1..Len(cut) |-> PL_Simplify(cut[i])])

PLS_Collection(albums) ==
    LET cut == PL_Cut(albums) IN Arr([i \in 1..Len(cut) |-> PLS_Simplify(cut[i])])

\* new Set(simplifiedCollection.map(a => a.id))
PL_ValidIds(albums) ==
    LET cut == PL_Cut(albums) IN {Get(cut[i], "id") : i \in 1..Len(cut)}

\* validIds.has(x): a primitive is found by value, an object or array parsed
\* from the model's text is never the same object as one of the request.
PL_Has(ids, x) == x.t \notin {"obj", "arr"} /\ x \in ids

PL_Start(b) ==
    LET albums == Get(b, "albums")
        rawMood == Get(b, "mood")
        rawType == Get(b, "type")
    IN IF ~IsArray(albums) \/ ~Truthy(rawMood) \/ ~IsString(rawMood)
       THEN Reply(400, Err("Missing albums array or mood"))
       ELSE IF validateStringLength(rawMood, MAX_MOOD, "mood") # <<>>
       THEN Reply(400, Err(validateStringLength(rawMood, MAX_MOOD, "mood")))
       ELSE IF ~Nullish(rawType) /\ validateStringLength(rawType, MAX_TYPE, "type") # <<>>
       THEN Reply(400, Err(validateStringLength(rawType, MAX_TYPE, "type")))
       ELSE IF PL_MapThrows(albums)
       THEN Reply(500, Err("Failed to generate playlist"))
       ELSE Invoke(<<Piece("mood", sanitizePromptInput(rawMood.v, MAX_MOOD), TRUE),
                     Piece("albums", JSONStringify(PL_Collection(albums)), FALSE)>>)

\* The playlist name without the cap.
PL_NameUncut(x) ==
    IF IsString(x) /\ Trim(x.v) # <<>> THEN Trim(x.v) ELSE T_CrateMix

\* The playlist name of the Express response.
PL_Name(x) ==
    LET name == IF IsString(x) THEN Trim(x.v) ELSE T_CrateMix
        capped == IF Len(name) > MAX_NAME THEN Slice0(name, NAME_KEEP) \o T_dots ELSE name
    IN IF capped # <<>> THEN capped ELSE T_CrateMix

\* item && validIds.has(item.albumId)
PL_Verified(ids, item) == Truthy(item) /\ PL_Has(ids, Get(item, "albumId"))

PL_VerifiedItems(ids, rawItems) == SelectSeq(rawItems, LAMBDA item : PL_Verified(ids, item))

PL_Finish(b, raw) ==
    LET parsed == ParseOrEmpty(raw)
        result == parsed.v
    IN IF ~parsed.ok \/ Nullish(result)
       THEN Reply(500, Err("Failed to generate playlist"))
       ELSE LET items == Get(result, "items")
                rawItems == IF IsArray(items) THEN items.v ELSE <<>>
            IN Reply(200,
                 [playlistName |-> Str(PL_Name(Get(result, "playlistName"))),
                  items |-> Arr(PL_VerifiedItems(PL_ValidIds(Get(b, "albums")), rawItems))])

\* The serverless handler, after its method check.
PLS_Start(b) ==
    LET albums == Get(b, "albums")
        mood == Get(b, "mood")
    IN IF ~IsArray(albums) \/ ~Truthy(mood) \/ ~IsString(mood)
       THEN Reply(400, Err("Missing albums array or mood"))
       ELSE IF PL_MapThrows(albums)
       THEN Reply(500, Err("Failed to generate playlist"))
       ELSE Invoke(<<Piece("mood", mood.v, FALSE),
                     Piece("albums", JSONStringify(PLS_Collection(albums)), FALSE)>>)

PLS_Finish(b, raw) ==
    LET parsed == ParseOrEmpty(raw)
        result == parsed.v
    IN IF ~parsed.ok \/ Nullish(result)
       THEN Reply(500, Err("Failed to generate playlist"))
       ELSE LET name == Get(result, "playlistName")
                items == Get(result, "items")
            IN Reply(200,
                 [playlistName |-> IF IsString(name) THEN name ELSE Str(T_CrateMix),
                  items |-> IF IsArray(items) THEN items ELSE Arr(<<>>)])

(***************************************************************************)
(* Upstream calls: fetch of a third-party endpoint, and the database.      *)
(***************************************************************************)
Endpoints ==
    {"lrclib/get", "lrclib/search", "itunes", "musicbrainz", "coverartarchive",
     "discogs", "supabase"}

\* A call: its endpoint, its index among the calls of the endpoint the
\* handler makes (0 where it makes one), and what it asks for.
Call(ep, i, q) == [ep |-> ep, i |-> i, q |-> q]

\* How a call settles: the promise rejects with an error of message msg, or
\* it resolves to a response with response.ok, a body and a status text.
Threw(msg) == [k |-> "threw", ok |-> FALSE, body |-> RawNone, msg |-> msg]
Resp(ok, body, statusText) == [k |-> "resp", ok |-> ok, body |-> body, msg |-> statusText]

\* await response.json(): ok is FALSE where it rejects.
JsonOf(o) == [ok |-> o.body.k = "json", v |-> IF o.body.k = "json" THEN o.body.v ELSE Undefined]

\* The handler waits for the calls of want.
Fetch(want) ==
    [act |-> "fetch", status |-> 0, body |-> <<>>, prompt |-> <<>>, calls |-> 0, want |-> want]

\* No call made.
NoLog == <<>>
UpIdle == [log |-> NoLog, pending |-> {}, calls |-> [e \in Endpoints |-> 0]]

\* The number of calls of want that go to endpoint e.
CallsTo(want, e) == Cardinality({c \in want : c.ep = e})

\* x || null
OrNull(x) == IF Truthy(x) THEN x ELSE Null

(***************************************************************************)
(* POST /api/lyrics (Express) and the serverless api/lyrics handler        *)
(***************************************************************************)
MAX_FIELD == 500

Digits == {"0", "1", "2", "3", "4", "5", "6", "7", "8", "9"}

T_lrclibExact == <<"l","r","c","l","i","b","-","e","x","a","c","t">>
T_lrclibSearch == <<"l","r","c","l","i","b","-","s","e","a","r","c","h">>

\* track.replace(/^\d+[\.\-\s]+\s*/, '').trim(): the digits at the start and
\* the run of dots, hyphens and white space after them go, where both are
\* there.
cleanTrackName(track) ==
    IF FirstFrom(track, 1, LAMBDA c : c \notin Digits) = 1
       \/ FirstFrom(track, FirstFrom(track, 1, LAMBDA c : c \notin Digits),
                    LAMBDA c : c \notin WhiteSpace \cup {".", "-"})
          = FirstFrom(track, 1, LAMBDA c : c \notin Digits)
    THEN Trim(track)
    ELSE Trim(SubSeq(track,
                     FirstFrom(track, FirstFrom(track, 1, LAMBDA c : c \notin Digits),
                               LAMBDA c : c \notin WhiteSpace \cup {".", "-"}),
                     Len(track)))

\* One character of a URLSearchParams value as the query string writes it:
\* a space is a plus sign, the characters ! ' ( ) ~ are percent-encoded too.
FormEncode(c) ==
    CASE c = " " -> <<"+">>
      [] c = "!" -> <<"%","2","1">>
      [] c = "'" -> <<"%","2","7">>
      [] c = "(" -> <<"%","2","8">>
      [] c = ")" -> <<"%","2","9">>
      [] c = "~" -> <<"%","7","E">>
      [] OTHER -> PercentEncode(c)

FormValue(s) == Concat([i \in 1..Len(s) |-> FormEncode(s[i])])

T_artistName == <<"a","r","t","i","s","t","_","n","a","m","e","=">>
T_trackName == <<"&","t","r","a","c","k","_","n","a","m","e","=">>
T_albumName == <<"&","a","l","b","u","m","_","n","a","m","e","=">>

\* The URLSearchParams of the exact-match request, as the query string.
LY_Params(b) ==
    T_artistName \o FormValue(Get(b, "artist").v)
    \o T_trackName \o FormValue(cleanTrackName(Get(b, "track").v))
    \o (IF Truthy(Get(b, "album")) /\ IsString(Get(b, "album"))
        THEN T_albumName \o FormValue(Get(b, "album").v)
        ELSE <<>>)

LY_ExactCall(b) == Call("lrclib/get", 0, LY_Params(b))

LY_SearchCall(b) ==
    Call("lrclib/search", 0,
         encodeURIComponent(Get(b, "artist").v \o <<" ">> \o cleanTrackName(Get(b, "track").v)))

LY_Caught == Reply(500, Err("Failed to fetch lyrics"))

\* data && (data.plainLyrics || data.syncedLyrics)
LY_HasLyrics(data) ==
    Truthy(data) /\ (Truthy(Get(data, "plainLyrics")) \/ Truthy(Get(data, "syncedLyrics")))

LY_Found(x, source) ==
    Reply(200, [lyrics |-> OrNull(Get(x, "plainLyrics")),
                syncedLyrics |-> OrNull(Get(x, "syncedLyrics")),
                source |-> Str(source)])

LY_NotFound == Reply(200, [lyrics |-> Null, syncedLyrics |-> Null, source |-> Null])

\* The handler from the settled search request on.
LY_AfterSearch(o) ==
    IF o.k = "threw" THEN LY_Caught
    ELSE IF ~o.ok THEN LY_NotFound
    ELSE IF ~JsonOf(o).ok THEN LY_Caught
    ELSE IF IsArray(JsonOf(o).v) /\ Len(JsonOf(o).v.v) > 0
    THEN (IF Nullish(JsonOf(o).v.v[1]) THEN LY_Caught
          ELSE LY_Found(JsonOf(o).v.v[1], T_lrclibSearch))
    ELSE LY_NotFound

\* The handler that asks both endpoints at once.
LY_LookupBoth(b, log) ==
    IF LY_ExactCall(b) \notin DOMAIN log \/ LY_SearchCall(b) \notin DOMAIN log
    THEN Fetch({LY_ExactCall(b), LY_SearchCall(b)} \ DOMAIN log)
    ELSE IF log[LY_ExactCall(b)].k = "threw" THEN LY_Caught
    ELSE IF log[LY_ExactCall(b)].ok /\ ~JsonOf(log[LY_ExactCall(b)]).ok THEN LY_Caught
    ELSE IF log[LY_ExactCall(b)].ok /\ LY_HasLyrics(JsonOf(log[LY_ExactCall(b)]).v)
    THEN LY_Found(JsonOf(log[LY_ExactCall(b)]).v, T_lrclibExact)
    ELSE LY_AfterSearch(log[LY_SearchCall(b)])

\* The handler from its first fetch on: the exact match, then the search.
LY_Lookup(b, log) ==
    IF LY_ExactCall(b) \notin DOMAIN log THEN Fetch({LY_ExactCall(b)})
    ELSE IF log[LY_ExactCall(b)].k = "threw" THEN LY_Caught
    ELSE IF log[LY_ExactCall(b)].ok /\ ~JsonOf(log[LY_ExactCall(b)]).ok THEN LY_Caught
    ELSE IF log[LY_ExactCall(b)].ok /\ LY_HasLyrics(JsonOf(log[LY_ExactCall(b)]).v)
    THEN LY_Found(JsonOf(log[LY_ExactCall(b)]).v, T_lrclibExact)
    ELSE IF LY_SearchCall(b) \notin DOMAIN log THEN Fetch({LY_SearchCall(b)})
    ELSE LY_AfterSearch(log[LY_SearchCall(b)])

\* !artist || !track || typeof artist !== 'string' || typeof track !== 'string'
LY_Missing(b) ==
    \/ ~Truthy(Get(b, "artist")) \/ ~Truthy(Get(b, "track"))
    \/ ~IsString(Get(b, "artist")) \/ ~IsString(Get(b, "track"))

\* The Express handler after requirePlan, given the calls settled so far.
LY_Step(b, log) ==
    IF LY_Missing(b) THEN Reply(400, Err("Missing artist or track"))
    ELSE IF validateStringLength(Get(b, "artist"), MAX_FIELD, "artist") # <<>>
    THEN Reply(400, Err(validateStringLength(Get(b, "artist"), MAX_FIELD, "artist")))
    ELSE IF validateStringLength(Get(b, "track"), MAX_FIELD, "track") # <<>>
    THEN Reply(400, Err(validateStringLength(Get(b, "track"), MAX_FIELD, "track")))
    ELSE IF ~Nullish(Get(b, "album"))
            /\ validateStringLength(Get(b, "album"), MAX_FIELD, "album") # <<>>
    THEN Reply(400, Err(validateStringLength(Get(b, "album"), MAX_FIELD, "album")))
    ELSE LY_Lookup(b, log)

\* The serverless handler after its method check.
LYS_Step(b, log) ==
    IF LY_Missing(b) THEN Reply(400, Err("Missing artist or track"))
    ELSE LY_Lookup(b, log)

(***************************************************************************)
(* POST /api/covers (Express) and the serverless api/covers handler        *)
(***************************************************************************)
MAX_COVERS == 10

T_100x100bb == <<"1","0","0","x","1","0","0","b","b">>
T_600x600bb == <<"6","0","0","x","6","0","0","b","b">>
T_iTunes == <<"i","T","u","n","e","s">>
T_MusicBrainz == <<"M","u","s","i","c","B","r","a","i","n","z">>
T_artistColon == <<"a","r","t","i","s","t",":">>
T_releaseColon == <<" ","r","e","l","e","a","s","e",":">>
T_caaPrefix ==
    <<"h","t","t","p","s",":","/","/","c","o","v","e","r","a","r","t","a","r","c","h","i","v","e",
      ".","o","r","g","/","r","e","l","e","a","s","e","/">>
T_front500 == <<"/","f","r","o","n","t","-","5","0","0">>

\* s.indexOf(w) + 1: the place of the first occurrence of w in s, 0 for none.
IndexOf(s, w) ==
    IF \A i \in 1..(Len(s) - Len(w) + 1) : SubSeq(s, i, i + Len(w) - 1) # w THEN 0
    ELSE CHOOSE i \in 1..(Len(s) - Len(w) + 1) :
            /\ SubSeq(s, i, i + Len(w) - 1) = w
            /\ \A h \in 1..(i - 1) : SubSeq(s, h, h + Len(w) - 1) # w

\* s.replace(w, r) for a string w: the first occurrence alone is replaced.
ReplaceFirst(s, w, r) ==
    IF IndexOf(s, w) = 0 THEN s
    ELSE SubSeq(s, 1, IndexOf(s, w) - 1) \o r \o SubSeq(s, IndexOf(s, w) + Len(w), Len(s))

\* A cover: { url, source, label }; res.json leaves out a label that is
\* undefined.
Cover(url, source, label) ==
    IF Truthy(label)
    THEN Obj([url |-> Str(url), source |-> Str(source), label |-> label])
    ELSE Obj([url |-> Str(url), source |-> Str(source)])

CV_ItunesCall(b) ==
    Call("itunes", 0, encodeURIComponent(Get(b, "artist").v \o <<" ">> \o Get(b, "title").v))

CV_MusicBrainzCall(b) ==
    Call("musicbrainz", 0,
         encodeURIComponent(T_artistColon \o Get(b, "artist").v \o T_releaseColon
                            \o Get(b, "title").v))

\* json.results || [], json.releases || []: ok is FALSE where reading it or
\* filtering it throws (json is null, the list is no array, an element of
\* the list is null).
ListOf(json, k) ==
    IF Nullish(json) THEN [ok |-> FALSE, v |-> <<>>]
    ELSE IF ~Truthy(Get(json, k)) THEN [ok |-> TRUE, v |-> <<>>]
    ELSE IF ~IsArray(Get(json, k)) THEN [ok |-> FALSE, v |-> <<>>]
    ELSE IF \E i \in 1..Len(Get(json, k).v) : Nullish(Get(json, k).v[i])
    THEN [ok |-> FALSE, v |-> <<>>]
    ELSE [ok |-> TRUE, v |-> Get(json, k).v]

\* results.filter(r => r.artworkUrl100)
IT_Kept(results) == SelectSeq(results, LAMBDA r : Truthy(Get(r, "artworkUrl100")))

\* { url: r.artworkUrl100.replace('100x100bb', '600x600bb'), source: 'iTunes',
\*   label: r.collectionName || undefined }
IT_Cover(r) ==
    Cover(ReplaceFirst(Get(r, "artworkUrl100").v, T_100x100bb, T_600x600bb), T_iTunes,
          Get(r, "collectionName"))

\* The filter and the map of searchItunes: ok is FALSE where they throw (an
\* artworkUrl100 that is no string has no replace).
IT_Covers(list) ==
    IF ~list.ok THEN [ok |-> FALSE, v |-> <<>>]
    ELSE IF \E i \in 1..Len(IT_Kept(list.v)) : ~IsString(Get(IT_Kept(list.v)[i], "artworkUrl100"))
    THEN [ok |-> FALSE, v |-> <<>>]
    ELSE [ok |-> TRUE, v |-> [i \in 1..Len(IT_Kept(list.v)) |-> IT_Cover(IT_Kept(list.v)[i])]]

\* searchItunes with a catch block that throws again.
searchItunesRethrow(o) ==
    IF o.k = "threw" THEN [ok |-> FALSE, v |-> <<>>]
    ELSE IF ~o.ok THEN [ok |-> TRUE, v |-> <<>>]
    ELSE IF ~JsonOf(o).ok THEN [ok |-> FALSE, v |-> <<>>]
    ELSE IT_Covers(ListOf(JsonOf(o).v, "results"))

\* searchItunes (lib/itunes) and searchiTunes (api/covers) from the settled
\* request on: the covers it resolves to; ok is FALSE where it rejects, which
\* its catch block rules out.
searchItunes(o) ==
    IF o.k = "threw" THEN [ok |-> TRUE, v |-> <<>>]
    ELSE IF ~o.ok THEN [ok |-> TRUE, v |-> <<>>]
    ELSE IF ~JsonOf(o).ok THEN [ok |-> TRUE, v |-> <<>>]
    ELSE [ok |-> TRUE, v |-> IT_Covers(ListOf(JsonOf(o).v, "results")).v]

\* releases.filter(r => r.id)
MB_Kept(releases) == SelectSeq(releases, LAMBDA r : Truthy(Get(r, "id")))

\* { url: `https://coverartarchive.org/release/${r.id}/front-500`,
\*   source: 'MusicBrainz', label: r.title || undefined }
MB_Cover(r) ==
    Cover(T_caaPrefix \o ToStringJS(Get(r, "id")) \o T_front500, T_MusicBrainz, Get(r, "title"))

\* The candidates of searchMusicBrainz from the settled search request on:
\* none where the request or the reading of its body fails.
MB_Candidates(o) ==
    IF o.k = "threw" \/ ~o.ok \/ ~JsonOf(o).ok THEN <<>>
    ELSE IF ~ListOf(JsonOf(o).v, "releases").ok THEN <<>>
    ELSE [i \in 1..Len(MB_Kept(ListOf(JsonOf(o).v, "releases").v)) |->
            MB_Cover(MB_Kept(ListOf(JsonOf(o).v, "releases").v)[i])]

\* The HEAD request for candidate i.
MB_HeadCall(candidates, i) == Call("coverartarchive", i, candidates[i].v["url"].v)

MB_HeadCalls(candidates) == {MB_HeadCall(candidates, i) : i \in 1..Len(candidates)}

\* checks[i] of Promise.allSettled: fulfilled with a response that is ok.
MB_Passes(candidates, i, log) ==
    log[MB_HeadCall(candidates, i)].k = "resp" /\ log[MB_HeadCall(candidates, i)].ok

\* The candidates with their checks, those that pass alone.
MB_Passed(candidates, log) ==
    SelectSeq([i \in 1..Len(candidates) |->
                 [c |-> candidates[i], ok |-> MB_Passes(candidates, i, log)]],
              LAMBDA p : p.ok)

\* candidates.filter((_, i) => checks[i] is fulfilled and ok)
MB_Checked(candidates, log) ==
    [j \in 1..Len(MB_Passed(candidates, log)) |-> MB_Passed(candidates, log)[j].c]

\* The loop of the handler without the break at MAX_COVERS.
RECURSIVE CV_LoopNoBreak(_, _, _, _)
CV_LoopNoBreak(all, i, seen, covers) ==
    IF i > Len(all) THEN covers
    ELSE IF all[i].v["url"] \in seen THEN CV_LoopNoBreak(all, i + 1, seen, covers)
    ELSE CV_LoopNoBreak(all, i + 1, seen \cup {all[i].v["url"]}, Append(covers, all[i]))

\* for (const cover of all) { if (!seen.has(cover.url)) { seen.add(cover.url);
\* covers.push(cover) } if (covers.length >= 10) break }
RECURSIVE CV_Loop(_, _, _, _)
CV_Loop(all, i, seen, covers) ==
    IF i > Len(all) \/ Len(covers) >= MAX_COVERS THEN covers
    ELSE IF all[i].v["url"] \in seen THEN CV_Loop(all, i + 1, seen, covers)
    ELSE CV_Loop(all, i + 1, seen \cup {all[i].v["url"]}, Append(covers, all[i]))

\* The calls the handler has made, given the calls settled so far: the two
\* searches it and mb, and the HEAD requests once the MusicBrainz search has
\* settled.
CV_Calls(it, mb, log) ==
    {it, mb} \cup (IF mb \in DOMAIN log THEN MB_HeadCalls(MB_Candidates(log[mb])) ELSE {})

CV_Caught == Reply(500, Err("Failed to search covers"))

\* await Promise.all([searchItunes(...), searchMusicBrainz(...)]) and the
\* rest of the try block: the handler waits until both searches have
\* settled, then combines their results.
CV_Join(it, mb, log) ==
    IF ~(CV_Calls(it, mb, log) \subseteq DOMAIN log)
    THEN Fetch(CV_Calls(it, mb, log) \ DOMAIN log)
    ELSE IF ~searchItunes(log[it]).ok THEN CV_Caught
    ELSE Reply(200,
           [covers |->
              Arr(CV_Loop(searchItunes(log[it]).v \o MB_Checked(MB_Candidates(log[mb]), log),
                          1, {}, <<>>))])

CV_Search(b, log) == CV_Join(CV_ItunesCall(b), CV_MusicBrainzCall(b), log)

\* !artist || !title || typeof artist !== 'string' || typeof title !== 'string'
CV_Missing(b) ==
    \/ ~Truthy(Get(b, "artist")) \/ ~Truthy(Get(b, "title"))
    \/ ~IsString(Get(b, "artist")) \/ ~IsString(Get(b, "title"))

\* The Express handler after requirePlan, given the calls settled so far.
CV_Step(b, log) ==
    IF CV_Missing(b) THEN Reply(400, Err("Missing artist or title"))
    ELSE IF validateStringLength(Get(b, "artist"), MAX_FIELD, "artist") # <<>>
    THEN Reply(400, Err(validateStringLength(Get(b, "artist"), MAX_FIELD, "artist")))
    ELSE IF validateStringLength(Get(b, "title"), MAX_FIELD, "title") # <<>>
    THEN Reply(400, Err(validateStringLength(Get(b, "title"), MAX_FIELD, "title")))
    ELSE CV_Search(b, log)

\* The serverless handler after its method check.
CVS_Step(b, log) ==
    IF CV_Missing(b) THEN Reply(400, Err("Missing artist or title"))
    ELSE CV_Search(b, log)

(***************************************************************************)
(* The serverless api/identify handler                                     *)
(***************************************************************************)
MAX_IMAGE_MB == 10

T_imageJpeg == <<"i","m","a","g","e","/","j","p","e","g">>
T_imagePng == <<"i","m","a","g","e","/","p","n","g">>
T_imageWebp == <<"i","m","a","g","e","/","w","e","b","p">>
T_imageGif == <<"i","m","a","g","e","/","g","i","f">>

ALLOWED_MIME_TYPES == {T_imageJpeg, T_imagePng, T_imageWebp, T_imageGif}

\* The handler from its try block to its call of generateContent.
ID_Start(b) ==
    IF ~Truthy(Get(b, "base64Data")) \/ ~IsString(Get(b, "base64Data"))
    THEN Reply(400, Err("Missing base64Data"))
    ELSE IF validateBase64Size(Get(b, "base64Data"), MAX_IMAGE_MB, "base64Data") # <<>>
    THEN Reply(400, Err(validateBase64Size(Get(b, "base64Data"), MAX_IMAGE_MB, "base64Data")))
    ELSE IF ~Truthy(Get(b, "mimeType")) \/ ~IsString(Get(b, "mimeType"))
            \/ Get(b, "mimeType").v \notin ALLOWED_MIME_TYPES
    THEN Reply(400, Err("Invalid or unsupported mimeType. Allowed: image/jpeg, image/png, image/webp, image/gif"))
    ELSE Invoke(<<>>)

ID_Caught == Reply(500, Err("Failed to identify album"))

\* The handler from the model's text on.
ID_Finish(b, raw) ==
    IF ~ParseOrEmpty(raw).ok \/ Nullish(ParseOrEmpty(raw).v) THEN ID_Caught
    ELSE IF ~IsString(Get(ParseOrEmpty(raw).v, "artist"))
            \/ ~IsString(Get(ParseOrEmpty(raw).v, "title"))
    THEN Reply(200, Null)
    ELSE Reply(200, [artist |-> Get(ParseOrEmpty(raw).v, "artist"),
                     title |-> Get(ParseOrEmpty(raw).v, "title")])

(***************************************************************************)
(* The serverless discogs-pricing handler                                  *)
(***************************************************************************)
MAX_RELEASE_IDS == 50

\* The message of an error that comes from no upstream call: a TypeError of
\* the handler's own code, a missing setting.
M_typeError == "Cannot read properties of null"
M_syntaxError == "Unexpected token"
M_notConfigured == "[discogs-pricing] SUPABASE_URL or SUPABASE_SERVICE_ROLE_KEY not configured"

DP_StatsCall(ids, i) == Call("discogs", i, ids[i])
DP_UpdateCall(ids, i) == Call("supabase", i, ids[i])

\* errorMessage of fetchMarketplaceStats for a response that is not ok:
\* body.message || JSON.stringify(body), or response.statusText where reading
\* the body throws.
DP_ErrorMessage(o) ==
    IF ~JsonOf(o).ok \/ Nullish(JsonOf(o).v) THEN <<"statusText", o.msg>>
    ELSE IF Truthy(Get(JsonOf(o).v, "message")) THEN <<"message", Get(JsonOf(o).v, "message")>>
    ELSE <<"json", JsonOf(o).v>>

\* fetchMarketplaceStats from its settled request on: the message of the
\* error it throws, <<>> where it returns prices.
DP_StatsError(o) ==
    IF o.k = "threw" THEN <<o.msg>>
    ELSE IF ~o.ok THEN <<"Discogs API ">> \o DP_ErrorMessage(o)
    ELSE IF ~JsonOf(o).ok THEN <<M_syntaxError>>
    ELSE IF Nullish(JsonOf(o).v) THEN <<M_typeError>>
    ELSE <<>>

\* The entry of errors for release i, <<>> for none: the message of the
\* error fetchMarketplaceStats threw, or the message of the update's error.
DP_Error(ids, i, log) ==
    IF DP_StatsError(log[DP_StatsCall(ids, i)]) # <<>>
    THEN <<"Release ", ids[i], ": ">> \o DP_StatsError(log[DP_StatsCall(ids, i)])
    ELSE IF log[DP_UpdateCall(ids, i)].k = "threw"
    THEN <<"Release ", ids[i], ": ", log[DP_UpdateCall(ids, i)].msg>>
    ELSE IF ~log[DP_UpdateCall(ids, i)].ok
    THEN <<"Release ", ids[i], ": DB update failed - ", log[DP_UpdateCall(ids, i)].msg>>
    ELSE <<>>

\* The calls of release i have settled: the stats request, and the update
\* where the stats request gave prices.
DP_Settled(ids, i, log) ==
    /\ DP_StatsCall(ids, i) \in DOMAIN log
    /\ DP_StatsError(log[DP_StatsCall(ids, i)]) = <<>> => DP_UpdateCall(ids, i) \in DOMAIN log

\* The place of the loop: the first release whose calls have not all
\* settled, Len(ids) + 1 for none.
DP_Place(ids, log) ==
    IF \A i \in 1..Len(ids) : DP_Settled(ids, i, log) THEN Len(ids) + 1
    ELSE CHOOSE i \in 1..Len(ids) :
            ~DP_Settled(ids, i, log) /\ \A h \in 1..(i - 1) : DP_Settled(ids, h, log)

\* The response that counts every release as updated.
DP_DoneAllUpdated(ids, log) ==
    Reply(200,
      [updated |-> Num(Len(ids)),
       errors |-> Arr(SelectSeq([i \in 1..Len(ids) |-> DP_Error(ids, i, log)],
                                LAMBDA e : e # <<>>))])

\* The response after the loop: { updated, errors }.
DP_Done(ids, log) ==
    Reply(200,
      [updated |-> Num(Cardinality({i \in 1..Len(ids) : DP_Error(ids, i, log) = <<>>})),
       errors |-> Arr(SelectSeq([i \in 1..Len(ids) |-> DP_Error(ids, i, log)],
                                LAMBDA e : e # <<>>))])

\* The loop with a stats request that is sent again after it threw.
DP_LoopRetry(ids, log) ==
    IF \E i \in 1..Len(ids) :
          DP_StatsCall(ids, i) \in DOMAIN log /\ log[DP_StatsCall(ids, i)].k = "threw"
    THEN Fetch({DP_StatsCall(ids, CHOOSE i \in 1..Len(ids) :
                   DP_StatsCall(ids, i) \in DOMAIN log
                   /\ log[DP_StatsCall(ids, i)].k = "threw")})
    ELSE IF DP_Place(ids, log) > Len(ids) THEN DP_Done(ids, log)
    ELSE IF DP_StatsCall(ids, DP_Place(ids, log)) \notin DOMAIN log
    THEN Fetch({DP_StatsCall(ids, DP_Place(ids, log))})
    ELSE Fetch({DP_UpdateCall(ids, DP_Place(ids, log))})

\* The loop, given the calls settled so far.
DP_Loop(ids, log) ==
    IF DP_Place(ids, log) > Len(ids) THEN DP_Done(ids, log)
    ELSE IF DP_StatsCall(ids, DP_Place(ids, log)) \notin DOMAIN log
    THEN Fetch({DP_StatsCall(ids, DP_Place(ids, log))})
    ELSE Fetch({DP_UpdateCall(ids, DP_Place(ids, log))})

\* The response of the outer catch block.
DP_Caught(message) == [error |-> "Failed to fetch Discogs pricing", details |-> message]

\* The handler after its method check, given the calls settled so far;
\* configured: SUPABASE_URL and SUPABASE_SERVICE_ROLE_KEY are set.
DP_Step(b, log, configured) ==
    IF ~IsArray(Get(b, "release_ids")) THEN Reply(400, Err("release_ids must be an array"))
    ELSE IF Len(Get(b, "release_ids").v) = 0
    THEN Reply(400, Err("release_ids must not be empty"))
    ELSE IF Len(Get(b, "release_ids").v) > MAX_RELEASE_IDS
    THEN Reply(400, Err(<<"release_ids must not exceed ", MAX_RELEASE_IDS, " items">>))
    ELSE IF ~configured THEN Reply(500, DP_Caught(M_notConfigured))
    ELSE DP_Loop(Get(b, "release_ids").v, log)

(***************************************************************************)
(* Text predicates used by the properties.                                 *)
(***************************************************************************)
\* Some pattern of INJECTION_PATTERNS matches somewhere in s.
HasInjection(s) ==
    \E k \in 1..Len(INJECTION_PATTERNS) :
        \E i \in 1..Len(s) : MatchAt(INJECTION_PATTERNS[k], s, i) > 0

\* p occurs in s, compared case-insensitively.
OccursIn(p, s) ==
    /\ Len(p) > 0
    /\ \E i \in 1..(Len(s) - Len(p) + 1) :
          \A j \in 1..Len(p) : ToLower(s[i + j - 1]) = ToLower(p[j])

(***************************************************************************)
(* The sanitizer driven on bounded inputs.                                 *)
(***************************************************************************)
MaxFrags == 3

\* The pieces s is built from.
Fragments ==
    { <<"y","o","u"," ">>,
      <<"a","r","e"," ","n","o","w">>,
      <<Backtick>>,
      <<"\n","\n">>,
      <<" ">>,
      <<"x">> }

\* One text matching each pattern of INJECTION_PATTERNS, and the empty text.
Phrases ==
    { <<>>,
      <<"I","g","n","o","r","e"," ","p","r","e","v","i","o","u","s"," ","i","n","s","t","r","u","c","t","i","o","n","s">>,
      <<"i","g","n","o","r","e"," ","a","l","l"," "," ","a","b","o","v","e","\n","i","n","s","t","r","u","c","t","i","o","n","s">>,
      <<"d","i","s","r","e","g","a","r","d"," ","a","l","l"," ","p","r","e","v","i","o","u","s">>,
      <<"y","o","u"," ","a","r","e"," ","n","o","w">>,
      <<"N","E","W"," ","I","N","S","T","R","U","C","T","I","O","N","S",":">>,
      <<"s","y","s","t","e","m",":">>,
      <<"a","s","s","i","s","t","a","n","t"," ",":">>,
      <<"U","s","e","r",":">>,
      <<"h","u","m","a","n",":">> }

\* The caps of the calls: none of the text, a few characters, and the
\* default of 500.
Caps == {0, 3, 500}

SanInit ==
    /\ sanPc = "build"
    /\ sanS = <<>>
    /\ sanFrags = 0
    /\ sanP = <<>>
    /\ sanCap = 0
    /\ sanOut = <<>>
    /\ sanOut2 = <<>>

SanAppend ==
    /\ sanPc = "build"
    /\ sanFrags < MaxFrags
    /\ \E f \in Fragments : sanS' = sanS \o f
    /\ sanFrags' = sanFrags + 1
    /\ UNCHANGED <<sanPc, sanP, sanCap, sanOut, sanOut2, valVars, srvVars, reqVars, auxVars>>

\* sanitizePromptInput(s ++ p, n), and the same call on its result.
SanCall ==
    /\ sanPc = "build"
    /\ \E p \in Phrases, n \in Caps :
          /\ sanP' = p
          /\ sanCap' = n
          /\ sanOut' = sanitizePromptInput(sanS \o p, n)
          /\ sanOut2' = sanitizePromptInput(sanOut', n)
    /\ sanPc' = "called"
    /\ UNCHANGED <<sanS, sanFrags, valVars, srvVars, reqVars, auxVars>>

\* The lines before and after a phrase in a text given whole.
LinesBefore == { <<>>, <<"x","\n">>, <<"x","\n","\n">> }
LinesAfter == { <<>>, <<"\n","x">>, <<"\n","\n","x">>, <<" ",Backtick,"\n">> }

\* sanitizePromptInput(s, n) for a text s given whole, a phrase between
\* lines, and the same call on its result.
SanCallLines ==
    /\ sanPc = "build"
    /\ sanFrags = 0
    /\ \E a \in LinesBefore, p \in Phrases, b \in LinesAfter, n \in Caps :
          /\ sanS' = a \o p \o b
          /\ sanCap' = n
          /\ sanOut' = sanitizePromptInput(a \o p \o b, n)
          /\ sanOut2' = sanitizePromptInput(sanOut', n)
    /\ sanP' = <<>>
    /\ sanPc' = "called"
    /\ UNCHANGED <<sanFrags, valVars, srvVars, reqVars, auxVars>>

SanNext == SanAppend \/ SanCall \/ SanCallLines

(***************************************************************************)
(* validateBase64Size driven on bounded inputs.                            *)
(***************************************************************************)
MaxMB == 3

\* The longest string that passes under a cap of m megabytes.
LongestWithin(m) == (m * (4 * (1024 * 1024))) \div 3

\* Strings around the boundary of every cap, short strings, and values that
\* are no strings.
ValValues ==
    { Blob(LongestWithin(m) + d) : m \in 0..MaxMB, d \in 0..3 }
    \cup { Blob(LongestWithin(m) - d) : m \in 1..MaxMB, d \in 1..3 }
    \cup { Str(<<>>), Str(<<"a">>), Null, Undefined, Num(4 * (1024 * 1024)), Arr(<<>>),
           Obj(<<>>) }

ValInit ==
    /\ valPc = "pick"
    /\ valValue = Undefined
    /\ valMaxMB = 0
    /\ valOut = <<>>

ValPick ==
    /\ valPc = "pick"
    /\ \E v \in ValValues, m \in 0..MaxMB :
          /\ valValue' = v
          /\ valMaxMB' = m
    /\ valPc' = "picked"
    /\ UNCHANGED <<valOut, sanVars, srvVars, reqVars, auxVars>>

ValCall ==
    /\ valPc = "picked"
    /\ valOut' = validateBase64Size(valValue, valMaxMB, "base64Data")
    /\ valPc' = "called"
    /\ UNCHANGED <<valValue, valMaxMB, sanVars, srvVars, reqVars, auxVars>>

ValNext == ValPick \/ ValCall

(***************************************************************************)
(* The middleware of the routes.                                           *)
(***************************************************************************)
ExpressRoutes ==
    {"/api/find-manual", "/api/setup-guide", "/api/playlist", "/api/covers", "/api/lyrics"}

\* The Express routes with a createRateLimit middleware.
RateLimitedRoutes == {"/api/find-manual", "/api/setup-guide", "/api/playlist"}

\* The serverless handlers that start with their method check.
PlainRoutes == {"api/playlist", "api/covers", "api/lyrics"}

ServerlessRoutes == PlainRoutes \cup {"api/identify", "api/discogs-pricing"}

\* The routes whose handler calls generateContent, and those that fetch.
ModelRoutes ==
    {"/api/find-manual", "/api/setup-guide", "/api/playlist", "api/playlist", "api/identify"}
FetchRoutes == {"/api/covers", "/api/lyrics", "api/covers", "api/lyrics", "api/discogs-pricing"}

\* createRateLimit(maxRequests, windowSeconds) of each route.
RateLimitOf(r) ==
    CASE r = "/api/setup-guide" -> [maxRequests |-> 3, windowSeconds |-> 60]
      [] OTHER -> [maxRequests |-> 10, windowSeconds |-> 60]

IPs == {"ip1"}

\* No entry of the store under a key.
NoEntry == [count |-> 0, expiresAt |-> 0]

\* The Authorization headers: none, one that is no Bearer credential, a valid
\* JWT, the legacy shared secret, and a Bearer token that is neither.
Creds == {"none", "basic", "jwt", "secret", "bogus"}

\* requireAuthWithUser: the userId it attaches, or "" where it answers 401.
requireAuthWithUser(c) ==
    IF c \in {"none", "basic"} THEN ""
    ELSE IF c = "jwt" THEN "user"
    ELSE IF c = "secret" THEN "__legacy__"
    ELSE ""

\* requireAuth of api/_auth: TRUE where the header is `Bearer ${secret}`.
requireAuth(c) == c = "secret"

\* requireAuthWithUser of api/_auth: the userId, or "" where it answers 401.
serverlessAuthWithUser(c) == IF c = "jwt" THEN "user" ELSE ""

Plans == {"collector", "curator", "enthusiast"}

PlanRank(p) == CASE p = "collector" -> 0 [] p = "curator" -> 1 [] OTHER -> 2

\* requirePlan(userId, required, res): TRUE where it returns the
\* subscription, FALSE where it answers 403 and returns nothing.
requirePlan(p, required) == PlanRank(p) >= PlanRank(required)

\* The body of the 403 of requirePlan.
PlanDenied(p) == [error |-> "Plan upgrade required", currentPlan |-> p]

\* for (const [key, entry] of store) if (entry.expiresAt <= now) store.delete(key)
SweepStore(s, t) ==
    [k \in DOMAIN s |-> IF s[k] # NoEntry /\ s[k].expiresAt <= t THEN NoEntry ELSE s[k]]

\* Math.floor in the place of Math.ceil.
FloorSeconds(ms) == ms \div 1000

\* Math.ceil((expiresAt - now) / 1000)
CeilSeconds(ms) == (ms + 999) \div 1000

\* The middleware createRateLimit returns, and rateLimit of api/_rateLimit,
\* on a request from key at time t: the store it leaves and whether the
\* request goes on.
RateLimitStep(s, key, t, maxRequests, windowSeconds) ==
    LET swept == SweepStore(s, t)
        entry == swept[key]
    IN IF entry = NoEntry \/ entry.expiresAt <= t
       THEN [store |-> [swept EXCEPT ![key] =
                           [count |-> 1, expiresAt |-> t + windowSeconds * 1000]],
             next |-> TRUE, retryAfter |-> 0]
       ELSE LET bumped == [swept EXCEPT ![key].count = entry.count + 1]
            IN IF entry.count + 1 > maxRequests
               THEN [store |-> bumped, next |-> FALSE,
                     retryAfter |-> CeilSeconds(entry.expiresAt - t)]
               ELSE [store |-> bumped, next |-> TRUE, retryAfter |-> 0]

(***************************************************************************)
(* The rate limiter driven on bounded inputs: the middleware of two routes *)
(* made with (maxRequests, windowSeconds) and (maxRequests + 1,            *)
(* windowSeconds) over the one Map of the module, and requests of two      *)
(* callers at chosen times.                                                *)
(***************************************************************************)
MaxLimit == 2
MaxWindow == 2
MaxLimiterCalls == 4

LimKeys == {"ip1", "ip2"}

Limiters == {"first", "second"}

\* The milliseconds between two requests.
LimSteps == {0, 999, 1000}

\* No window of a caller yet.
NoWindow == [opened |-> 0 - 1, expiry |-> 0, allowed |-> [l \in Limiters |-> 0]]

\* A window is open for a caller at time t.
InWindow(w, t) == w # NoWindow /\ t < w.expiry

\* The window of a request at time t, before the limiter decides: the open
\* one, or a new one of windowSeconds that starts at t.
WindowAt(w, t, windowSeconds) ==
    IF InWindow(w, t) THEN w
    ELSE [opened |-> t, expiry |-> t + windowSeconds * 1000,
          allowed |-> [l \in Limiters |-> 0]]

LimInit ==
    lim = [pc |-> "create", maxRequests |-> [l \in Limiters |-> 0], windowSeconds |-> 0,
           store |-> [k \in LimKeys |-> NoEntry], now |-> 0, calls |-> 0,
           window |-> [k \in LimKeys |-> NoWindow],
           last |-> [key |-> "none", limiter |-> "none", next |-> TRUE, retryAfter |-> 0,
                     fresh |-> FALSE, before |-> 0]]

\* createRateLimit(m, w) for one route, createRateLimit(m + 1, w) for another.
LimCreate ==
    /\ lim.pc = "create"
    /\ \E m \in 1..MaxLimit, w \in 1..MaxWindow :
          lim' = [lim EXCEPT !.pc = "run", !.windowSeconds = w,
                             !.maxRequests = [l \in Limiters |->
                                                IF l = "first" THEN m ELSE m + 1]]
    /\ UNCHANGED <<sanVars, valVars, srvVars, reqVars, px, prc, wl>>

\* The driver after a request of key through limiter l at time t, where
\* step is what the middleware did.
LimAfter(key, l, t, step) ==
    [lim EXCEPT
       !.now = t,
       !.calls = lim.calls + 1,
       !.store = step.store,
       !.window[key] =
          [WindowAt(lim.window[key], t, lim.windowSeconds) EXCEPT
             !.allowed[l] = @ + (IF step.next THEN 1 ELSE 0)],
       !.last = [key |-> key, limiter |-> l, next |-> step.next,
                 retryAfter |-> step.retryAfter,
                 fresh |-> ~InWindow(lim.window[key], t),
                 before |-> WindowAt(lim.window[key], t, lim.windowSeconds).allowed[l]]]

\* A request of one caller goes through the middleware of one route, dt
\* milliseconds after the request before it.
LimRequest ==
    /\ lim.pc = "run"
    /\ lim.calls < MaxLimiterCalls
    /\ \E key \in LimKeys, l \in Limiters, dt \in LimSteps :
          lim' = LimAfter(key, l, lim.now + dt,
                          RateLimitStep(lim.store, key, lim.now + dt,
                                        lim.maxRequests[l], lim.windowSeconds))
    /\ UNCHANGED <<sanVars, valVars, srvVars, reqVars, px, prc, wl>>

LimNext == LimCreate \/ LimRequest

(***************************************************************************)
(* The image proxy: GET /api/image-proxy (Express) and the serverless      *)
(* api/image-proxy handler, driven on bounded inputs.                      *)
(***************************************************************************)
H_imgDiscogs == <<"i","m","g",".","d","i","s","c","o","g","s",".","c","o","m">>
H_iDiscogs == <<"i",".","d","i","s","c","o","g","s",".","c","o","m">>
H_coverartarchive == <<"c","o","v","e","r","a","r","t","a","r","c","h","i","v","e",".","o","r","g">>
H_unsplash == <<"i","m","a","g","e","s",".","u","n","s","p","l","a","s","h",".","c","o","m">>

ALLOWED_HOSTS == <<H_imgDiscogs, H_iDiscogs, H_coverartarchive, H_unsplash>>

\* s.startsWith(p), s.endsWith(p)
StartsWith(s, p) == Len(s) >= Len(p) /\ SubSeq(s, 1, Len(p)) = p
EndsWith(s, p) == Len(s) >= Len(p) /\ SubSeq(s, Len(s) - Len(p) + 1, Len(s)) = p

AsciiLetters == {"a", "b", "c", "d", "e", "f", "g", "h", "i", "j", "k", "l", "m", "n", "o", "p", "q", "r", "s", "t", "u", "v", "w", "x", "y", "z", "A", "B", "C", "D", "E", "F", "G", "H", "I", "J", "K", "L", "M", "N", "O", "P", "Q", "R", "S", "T", "U", "V", "W", "X", "Y", "Z"}

\* The place of the first character of s at or after place from that is in
\* set, Len(s) + 1 for none.
FirstOf(s, set, from) ==
    IF \A i \in from..Len(s) : s[i] \notin set THEN Len(s) + 1
    ELSE CHOOSE i \in from..Len(s) :
            s[i] \in set /\ \A h \in from..(i - 1) : s[h] \notin set

\* The place of the last character of s that is c, 0 for none.
LastOf(s, c) ==
    IF \A i \in 1..Len(s) : s[i] # c THEN 0
    ELSE CHOOSE i \in 1..Len(s) : s[i] = c /\ \A h \in (i + 1)..Len(s) : s[h] # c

URL_Lower(s) == [i \in 1..Len(s) |-> ToLower(s[i])]

\* The place of the colon that ends the scheme of u, 0 where u has no scheme.
URL_SchemeEnd(u) ==
    IF FirstOf(u, {":"}, 1) > Len(u) \/ FirstOf(u, {":"}, 1) = 1 THEN 0
    ELSE IF u[1] \notin AsciiLetters THEN 0
    ELSE IF \E i \in 1..(FirstOf(u, {":"}, 1) - 1) :
               u[i] \notin AsciiLetters \cup Digits \cup {"+", "-", "."} THEN 0
    ELSE FirstOf(u, {":"}, 1)

\* The schemes whose URLs have a host that is a domain.
URL_Special == {<<"h","t","t","p">>, <<"h","t","t","p","s">>, <<"f","t","p">>, <<"w","s">>, <<"w","s","s">>}

URL_NoHost == [ok |-> FALSE, hostname |-> <<>>]

\* The host of authority a: the text after the last @ and before the port.  A port is a run of digits.
URL_HostOf(a) ==
    IF LastOf(SubSeq(a, LastOf(a, "@") + 1, Len(a)), ":") = 0
    THEN [ok |-> TRUE, hostname |-> SubSeq(a, LastOf(a, "@") + 1, Len(a))]
    ELSE [ok |-> \A i \in (LastOf(a, ":") + 1)..Len(a) : a[i] \in Digits,
          hostname |-> SubSeq(a, LastOf(a, "@") + 1, LastOf(a, ":") - 1)]

\* The code points a host cannot hold, of those the inputs use.
URL_Forbidden == {" ", "<", ">", "^", "|"}

\* r without the slashes and backslashes it starts with.
URL_SkipSlashes(r) ==
    IF \A i \in 1..Len(r) : r[i] \in {"/", "\\"} THEN <<>>
    ELSE SubSeq(r, CHOOSE i \in 1..Len(r) :
                      r[i] \notin {"/", "\\"} /\ \A h \in 1..(i - 1) : r[h] \in {"/", "\\"},
                Len(r))

\* The authority r starts with: the text before the first character of ends.
URL_Authority(r, ends) == SubSeq(r, 1, FirstOf(r, ends, 1) - 1)

\* The host of a special URL whose text after the scheme's colon is r: any
\* run of slashes and backslashes is skipped, the authority ends at the next
\* slash, backslash, ? or #, and the host is lower-cased.
URL_SpecialHost(r) ==
    [ok |-> URL_HostOf(URL_Authority(URL_SkipSlashes(r), {"/", "\\", "?", "#"})).ok,
     hostname |->
        URL_Lower(URL_HostOf(URL_Authority(URL_SkipSlashes(r), {"/", "\\", "?", "#"})).hostname)]

\* The parser's verdict on host h: a host cannot hold a forbidden code
\* point, and the host of a special URL cannot be empty.
URL_Checked(h, special) ==
    IF ~h.ok \/ (special /\ h.hostname = <<>>)
       \/ \E i \in 1..Len(h.hostname) : h.hostname[i] \in URL_Forbidden
    THEN URL_NoHost
    ELSE h

\* new URL(u) for a text u with no white space around it and no IPv6, IPv4
\* or percent-encoded host: ok is FALSE where it throws, hostname is
\* parsed.hostname.  A URL of another scheme has a host only after //, kept
\* as it is written.
URL_Parse(u) ==
    IF URL_SchemeEnd(u) = 0 THEN URL_NoHost
    ELSE IF URL_Lower(SubSeq(u, 1, URL_SchemeEnd(u) - 1)) \in URL_Special
    THEN URL_Checked(URL_SpecialHost(SubSeq(u, URL_SchemeEnd(u) + 1, Len(u))), TRUE)
    ELSE IF StartsWith(SubSeq(u, URL_SchemeEnd(u) + 1, Len(u)), <<"/", "/">>)
    THEN URL_Checked(URL_HostOf(URL_Authority(SubSeq(u, URL_SchemeEnd(u) + 3, Len(u)),
                                              {"/", "?", "#"})), FALSE)
    ELSE [ok |-> TRUE, hostname |-> <<>>]

\* The test without the dot before the entry.
PX_HostAllowedNoDot(hostname) ==
    \E i \in 1..Len(ALLOWED_HOSTS) : EndsWith(hostname, ALLOWED_HOSTS[i])

\* ALLOWED_HOSTS.some(host => parsed.hostname === host || parsed.hostname.endsWith('.' + host))
PX_HostAllowed(hostname) ==
    \E i \in 1..Len(ALLOWED_HOSTS) :
        hostname = ALLOWED_HOSTS[i] \/ EndsWith(hostname, <<".">> \o ALLOWED_HOSTS[i])

PX_Reply(st, e) == [act |-> "reply", status |-> st, error |-> e, contentType |-> Null]
PX_Send(contentType) == [act |-> "reply", status |-> 200, error |-> "", contentType |-> contentType]
PX_Fetch == [act |-> "fetch", status |-> 0, error |-> "", contentType |-> Null]

T_imageSlash == <<"i","m","a","g","e","/">>

\* The handler up to its fetch.  serverless: the handler of api/image-proxy,
\* which starts with cors and its method check; the Express route is
\* registered for GET alone.
PX_Start(serverless, method, url) ==
    IF serverless /\ method = "OPTIONS" THEN PX_Reply(204, "")
    ELSE IF serverless /\ method # "GET" THEN PX_Reply(405, "Method not allowed")
    ELSE IF ~Truthy(url) \/ url.t # "str" THEN PX_Reply(400, "Missing url parameter")
    ELSE IF ~URL_Parse(url.v).ok THEN PX_Reply(400, "Invalid URL")
    ELSE IF ~PX_HostAllowed(URL_Parse(url.v).hostname) THEN PX_Reply(403, "Host not allowed")
    ELSE PX_Fetch

\* fetch threw.
PX_Threw == [k |-> "threw", status |-> 0, contentType |-> Null, readable |-> FALSE]

\* fetch gave a response; readable: its arrayBuffer() does not reject.
PX_Resp(st, contentType, readable) ==
    [k |-> "resp", status |-> st, contentType |-> contentType, readable |-> readable]

\* The handler from the settled fetch on.
PX_Finish(o) ==
    IF o.k = "threw" THEN PX_Reply(502, "Failed to fetch image")
    ELSE IF o.status \notin 200..299 THEN PX_Reply(o.status, "Upstream fetch failed")
    ELSE IF ~Truthy(o.contentType) \/ ~StartsWith(o.contentType.v, T_imageSlash)
    THEN PX_Reply(502, "Upstream returned non-image content type")
    ELSE IF ~o.readable THEN PX_Reply(502, "Failed to fetch image")
    ELSE PX_Send(o.contentType)

\* The pieces of the URLs of the requests.
PX_Schemes == {<<"h","t","t","p",":","/","/">>, <<"H","T","T","P","S",":","/">>, <<"/","/">>, <<>>, <<"d","a","t","a",":">>, <<"x",":","/","/">>}
PX_UserInfos == {<<>>, H_iDiscogs \o <<"@">>}
PX_Hosts ==
    {H_iDiscogs, H_coverartarchive, <<"c","d","n",".">> \o H_unsplash, <<"I","M","G",".","D","i","s","c","o","g","s",".","C","O","M">>, <<"e","v","i","l",".","c","o","m">>,
     <<"e","v","i","l">> \o H_coverartarchive, H_coverartarchive \o <<".","e","v","i","l",".","c","o","m">>, H_iDiscogs \o <<".">>, <<>>, <<"i",".","d","i","s","c","o","g","s"," ",".","c","o","m">>}
PX_Ports == {<<>>, <<":","8","0","8","0">>, <<":","8","a">>}
PX_Tails == {<<>>, <<"/">> \o H_iDiscogs, <<"?","h","=",".">> \o H_iDiscogs, <<"\\", "@">> \o H_iDiscogs}

\* req.query.url: absent, empty, given twice, or a text.
PX_Urls ==
    {Undefined, Str(<<>>), Arr(<<Str(H_iDiscogs), Str(H_iDiscogs)>>)}
    \cup {Str(s \o u \o h \o p \o t) :
             s \in PX_Schemes, u \in PX_UserInfos, h \in PX_Hosts, p \in PX_Ports,
             t \in PX_Tails}

\* The outcomes of the fetch.
PX_ContentTypes ==
    {Null, Str(<<>>), Str(T_imagePng), Str(<<"I","m","a","g","e","/","P","N","G">>), Str(<<"t","e","x","t","/","h","t","m","l">>),
     Str(<<"x","i","m","a","g","e","/","p","n","g">>)}
PX_Outcomes ==
    {PX_Threw, PX_Resp(404, Str(<<"t","e","x","t","/","h","t","m","l">>), TRUE), PX_Resp(304, Str(T_imagePng), TRUE),
     PX_Resp(206, Str(T_imagePng), TRUE), PX_Resp(200, Str(T_imagePng), FALSE)}
    \cup {PX_Resp(200, c, TRUE) : c \in PX_ContentTypes}

PxInit ==
    px = [pc |-> "idle", serverless |-> FALSE, method |-> "none", url |-> Undefined,
          fetched |-> <<>>, outcome |-> PX_Threw, status |-> 0, error |-> "",
          contentType |-> Null, responses |-> 0]

\* The proxy after step r of the handler.
PxAfter(p, r) ==
    [p EXCEPT !.pc = IF r.act = "fetch" THEN "await" ELSE "done",
              !.fetched = IF r.act = "fetch" THEN Append(p.fetched, p.url.v) ELSE p.fetched,
              !.status = r.status,
              !.error = r.error,
              !.contentType = r.contentType,
              !.responses = p.responses + (IF r.act = "reply" THEN 1 ELSE 0)]

\* A request arrives and the handler runs up to its first response or to
\* its fetch.
PxRequest(urls) ==
    /\ px.pc = "idle"
    /\ \E s \in BOOLEAN, m \in {"GET", "POST", "OPTIONS"}, u \in urls :
          /\ ~s => m = "GET"
          /\ px' = PxAfter([px EXCEPT !.serverless = s, !.method = m, !.url = u],
                           PX_Start(s, m, u))
    /\ UNCHANGED <<sanVars, valVars, srvVars, reqVars, lim, prc, wl>>

\* The fetch settles and the handler responds.
PxSettles(outcomes) ==
    /\ px.pc = "await"
    /\ \E o \in outcomes : px' = PxAfter([px EXCEPT !.outcome = o], PX_Finish(o))
    /\ UNCHANGED <<sanVars, valVars, srvVars, reqVars, lim, prc, wl>>

PxNext == PxRequest(PX_Urls) \/ PxSettles(PX_Outcomes)

(***************************************************************************)
(* GET /api/prices and its cache, over requests that may overlap.          *)
(***************************************************************************)
\* 5 * 60 * 1000: five minutes.
CACHE_TTL_MS == 300000

MaxPriceRequests == 3

\* price.product: the id of a product that was not expanded, or a product.
\* tier is metadata?.tier, "" where there is none.
ProductId == [k |-> "string", active |-> FALSE, tier |-> "", name |-> ""]
Product(active, tier, name) == [k |-> "object", active |-> active, tier |-> tier, name |-> name]

\* A price of prices.data; interval is recurring?.interval, "" for none.
Price(id, amount, interval, product) ==
    [id |-> id, unit_amount |-> amount, currency |-> "usd", interval |-> interval,
     product |-> product]

PriceData(price) ==
    [priceId |-> price.id, amount |-> price.unit_amount, currency |-> price.currency,
     interval |-> price.interval]

\* tiers after one price of the loop.
PR_AddPrice(tiers, price) ==
    IF price.product.k = "string" \/ ~price.product.active THEN tiers
    ELSE IF price.product.tier = "" THEN tiers
    ELSE IF price.interval = "month"
    THEN With(tiers, price.product.tier,
              With(IF price.product.tier \in DOMAIN tiers THEN tiers[price.product.tier]
                   ELSE [name |-> price.product.name],
                   "monthly", PriceData(price)))
    ELSE IF price.interval = "year"
    THEN With(tiers, price.product.tier,
              With(IF price.product.tier \in DOMAIN tiers THEN tiers[price.product.tier]
                   ELSE [name |-> price.product.name],
                   "annual", PriceData(price)))
    ELSE With(tiers, price.product.tier,
              IF price.product.tier \in DOMAIN tiers THEN tiers[price.product.tier]
              ELSE [name |-> price.product.name])

\* for (const price of prices.data) { ... }
RECURSIVE PR_Tiers(_, _, _)
PR_Tiers(data, i, tiers) ==
    IF i > Len(data) THEN tiers
    ELSE PR_Tiers(data, i + 1, PR_AddPrice(tiers, data[i]))

\* The cache: cachedPrices and cacheExpiry.
PR_Cache(prices, expiry) == [cachedPrices |-> prices, cacheExpiry |-> expiry]

\* A step of the handler: the response it sends (status 0: none yet, it
\* waits for stripe.prices.list) and the cache it leaves.
PR_Step(st, b, cache) == [status |-> st, body |-> b, cache |-> cache]

\* The handler up to its first response or to its call of Stripe, at time
\* t.  key: STRIPE_SECRET_KEY is set.
PR_Start(key, cache, t) ==
    IF ~key THEN PR_Step(200, [tiers |-> <<>>], cache)
    ELSE IF cache.cachedPrices # Null /\ t < cache.cacheExpiry
    THEN PR_Step(200, cache.cachedPrices, cache)
    ELSE PR_Step(0, Null, cache)

\* stripe.prices.list threw.
PR_Threw == [k |-> "threw", data |-> <<>>]
PR_Listed(data) == [k |-> "listed", data |-> data]

\* The handler that forgets its cache where Stripe fails.
PR_FinishForgets(o, start, cache) ==
    IF o.k = "threw" THEN PR_Step(500, Err("Failed to fetch prices"), PR_Cache(Null, 0))
    ELSE PR_Step(200, [tiers |-> PR_Tiers(o.data, 1, <<>>)],
                 PR_Cache([tiers |-> PR_Tiers(o.data, 1, <<>>)], start + CACHE_TTL_MS))

\* The handler from the settled call of Stripe on, for the request that
\* started at time start.
PR_Finish(o, start, cache) ==
    IF o.k = "threw" THEN PR_Step(500, Err("Failed to fetch prices"), cache)
    ELSE PR_Step(200, [tiers |-> PR_Tiers(o.data, 1, <<>>)],
                 PR_Cache([tiers |-> PR_Tiers(o.data, 1, <<>>)], start + CACHE_TTL_MS))

P_month == Price("p1", 500, "month", Product(TRUE, "curator", "Curator"))
P_year == Price("p2", 5000, "year", Product(TRUE, "curator", "Curator"))
P_week == Price("p3", 100, "week", Product(TRUE, "enthusiast", "Enthusiast"))
P_once == Price("p4", 900, "", Product(TRUE, "", "Gift"))
P_old == Price("p5", 400, "month", Product(FALSE, "curator", "Curator"))
P_bare == Price("p6", 400, "month", ProductId)

\* The outcomes of stripe.prices.list.
PR_Outcomes ==
    {PR_Threw, PR_Listed(<<>>), PR_Listed(<<P_month, P_year, P_week>>),
     PR_Listed(<<P_once, P_old, P_bare, P_year>>)}

\* The milliseconds between two arrivals.
PR_Gaps == {0, CACHE_TTL_MS - 1, CACHE_TTL_MS}

PR_NoRequest == [pc |-> "idle", start |-> 0, status |-> 0, body |-> Null, o |-> PR_Threw]

PrInit ==
    prc = [pc |-> "boot", key |-> FALSE, cache |-> PR_Cache(Null, 0), now |-> 0,
          arrived |-> 0, calls |-> 0, reqs |-> [i \in 1..MaxPriceRequests |-> PR_NoRequest]]

\* The process starts, with or without STRIPE_SECRET_KEY.
PrBoot ==
    /\ prc.pc = "boot"
    /\ \E key \in BOOLEAN : prc' = [prc EXCEPT !.pc = "run", !.key = key]
    /\ UNCHANGED <<sanVars, valVars, srvVars, reqVars, lim, px, wl>>

\* The server after request i has arrived at time t and its handler has
\* taken step r.
PrArrived(i, t, r) ==
    [prc EXCEPT !.now = t,
               !.arrived = i,
               !.calls = prc.calls + (IF r.status = 0 THEN 1 ELSE 0),
               !.cache = r.cache,
               !.reqs[i] = [pc |-> IF r.status = 0 THEN "await" ELSE "done", start |-> t,
                            status |-> r.status, body |-> r.body, o |-> PR_Threw]]

\* A request arrives, dt milliseconds after the one before it, and its
\* handler runs up to its first response or to its call of Stripe.
PrArrive(gaps) ==
    /\ prc.pc = "run"
    /\ prc.arrived < MaxPriceRequests
    /\ \E dt \in gaps :
          prc' = PrArrived(prc.arrived + 1, prc.now + dt,
                          PR_Start(prc.key, prc.cache, prc.now + dt))
    /\ UNCHANGED <<sanVars, valVars, srvVars, reqVars, lim, px, wl>>

\* The server after the call of request i has settled as o and its handler
\* has taken step r.
PrSettled(i, o, r) ==
    [prc EXCEPT !.cache = r.cache,
               !.reqs[i] = [@ EXCEPT !.pc = "done", !.status = r.status, !.body = r.body,
                                     !.o = o]]

\* The call of Stripe of one request settles and its handler responds.
PrSettles(outcomes) ==
    /\ \E i \in 1..MaxPriceRequests, o \in outcomes :
          /\ prc.reqs[i].pc = "await"
          /\ prc' = PrSettled(i, o, PR_Finish(o, prc.reqs[i].start, prc.cache))
    /\ UNCHANGED <<sanVars, valVars, srvVars, reqVars, lim, px, wl>>

PrNext == PrBoot \/ PrArrive(PR_Gaps) \/ PrSettles(PR_Outcomes)

(***************************************************************************)
(* WantlistView: the wantlist state and handleRemove.  The component       *)
(* renders after every update of its state, so a call of handleRemove      *)
(* reads the wantlist of the last update.  Items are named by their ids,    *)
(* and every item is removed once at most.                                 *)
(***************************************************************************)
MaxWantlist == 3

\* prev.filter((item) => item.id !== id)
WL_Without(list, id) == SelectSeq(list, LAMBDA item : item # id)

WL_NoCall == [pc |-> "idle", previous |-> <<>>]

WlInit ==
    wl = [pc |-> "loading", loaded |-> 0, wantlist |-> <<>>,
          calls |-> [id \in 1..MaxWantlist |-> WL_NoCall]]

\* fetchWantlist: getWantlist resolves and setWantlist(data) shows the items.
WlLoad ==
    /\ wl.pc = "loading"
    /\ \E n \in 1..MaxWantlist :
          wl' = [wl EXCEPT !.pc = "shown", !.loaded = n, !.wantlist = [i \in 1..n |-> i]]
    /\ UNCHANGED <<sanVars, valVars, srvVars, reqVars, lim, px, prc>>

\* handleRemove(id) up to its await: previous is the wantlist of this
\* render, the item leaves the state, and removeFromWantlist(id) is sent.
WlRemove ==
    /\ wl.pc = "shown"
    /\ \E k \in 1..Len(wl.wantlist) :
          /\ wl.calls[wl.wantlist[k]].pc = "idle"
          /\ wl' = [wl EXCEPT !.wantlist = WL_Without(wl.wantlist, wl.wantlist[k]),
                              !.calls[wl.wantlist[k]] =
                                  [pc |-> "pending", previous |-> wl.wantlist]]
    /\ UNCHANGED <<sanVars, valVars, srvVars, reqVars, lim, px, prc>>

\* removeFromWantlist(id) resolves: handleRemove leaves the state as it is.
WlRemoved ==
    /\ \E id \in 1..MaxWantlist :
          /\ wl.calls[id].pc = "pending"
          /\ wl' = [wl EXCEPT !.calls[id].pc = "removed"]
    /\ UNCHANGED <<sanVars, valVars, srvVars, reqVars, lim, px, prc>>

\* removeFromWantlist(id) rejects: the catch block calls
\* setWantlist(previous).
WlFailed ==
    /\ \E id \in 1..MaxWantlist :
          /\ wl.calls[id].pc = "pending"
          /\ wl' = [wl EXCEPT !.calls[id].pc = "failed",
                              !.wantlist = wl.calls[id].previous]
    /\ UNCHANGED <<sanVars, valVars, srvVars, reqVars, lim, px, prc>>

WlNext == WlLoad \/ WlRemove \/ WlRemoved \/ WlFailed

(***************************************************************************)
(* The handlers by route.                                                  *)
(***************************************************************************)
\* The handler given the upstream calls settled so far.
StepOf(r, b, log) ==
    CASE r = "/api/covers" -> CV_Step(b, log)
      [] r = "api/covers" -> CVS_Step(b, log)
      [] r = "/api/lyrics" -> LY_Step(b, log)
      [] r = "api/lyrics" -> LYS_Step(b, log)
      [] OTHER -> DP_Step(b, log, TRUE)

StartOf(r, b) ==
    CASE r = "/api/find-manual" -> FM_Start(b)
      [] r = "/api/setup-guide" -> SG_Start(b)
      [] r = "/api/playlist" -> PL_Start(b)
      [] r = "api/playlist" -> PLS_Start(b)
      [] r = "api/identify" -> ID_Start(b)
      [] OTHER -> StepOf(r, b, NoLog)

FinishOf(r, b, x) ==
    CASE r = "/api/find-manual" -> FM_Finish(b, x)
      [] r = "/api/setup-guide" -> SG_Finish(b, x)
      [] r = "/api/playlist" -> PL_Finish(b, x)
      [] r = "api/identify" -> ID_Finish(b, x)
      [] OTHER -> PLS_Finish(b, x)

\* The response of the catch block around the handler's body.
CatchOf(r) ==
    CASE r = "/api/find-manual" -> Reply(500, Err("Failed to find manual"))
      [] r = "/api/setup-guide" -> Reply(500, Err("Failed to generate setup guide"))
      [] r = "api/identify" -> ID_Caught
      [] OTHER -> Reply(500, Err("Failed to generate playlist"))

(***************************************************************************)
(* The server.                                                             *)
(***************************************************************************)
NoBody == <<>>

\* The messages an upstream error can carry.
ErrorMessages == {"quota exceeded for key k1", "connect ECONNREFUSED 10.0.0.7"}

\* generateContent threw an error of message msg.
ThrewWith(msg) == [k |-> "threw", v |-> Undefined, msg |-> msg]

ReqIdle ==
    /\ pc = "idle"
    /\ route = "none"
    /\ ip = "none"
    /\ cred = "none"
    /\ userId = ""
    /\ plan = "none"
    /\ reqBody = Undefined
    /\ prompt = <<>>
    /\ modelCalls = 0
    /\ modelText = RawNone
    /\ status = 0
    /\ respBody = NoBody
    /\ retryAfter = 0
    /\ responses = 0
    /\ up = UpIdle

SrvInit ==
    /\ store = [k \in IPs |-> NoEntry]
    /\ slStore = [k \in IPs |-> NoEntry]
    /\ perRoute = [store |-> [r \in RateLimitedRoutes |-> [k \in IPs |-> NoEntry]],
                   next |-> TRUE]
    /\ now = 0
    /\ ticks = 0
    /\ served = 0
    /\ ReqIdle

\* res.status(st).json(b), which ends the request.
Respond(st, b) ==
    /\ status' = st
    /\ respBody' = b
    /\ responses' = responses + 1
    /\ pc' = "done"

\* The handler responds before it has read the body.
Refuse(st, b) ==
    /\ Respond(st, b)
    /\ UNCHANGED <<reqBody, prompt, modelCalls, up>>

\* A request arrives, after the clock has run for dt milliseconds.
Arrive(routes, maxRequests, maxTicks) ==
    /\ pc = "idle"
    /\ served < maxRequests
    /\ served' = served + 1
    /\ \E r \in routes, k \in IPs :
          /\ route' = r
          /\ ip' = k
          /\ pc' = IF r \in ExpressRoutes THEN "auth" ELSE "handler"
    /\ \E dt \in {0, 60000} :
          /\ dt > 0 => ticks < maxTicks
          /\ now' = now + dt
          /\ ticks' = IF dt > 0 THEN ticks + 1 ELSE ticks
    /\ UNCHANGED <<store, slStore, perRoute, cred, userId, plan, reqBody, prompt, modelCalls,
                   modelText, status, respBody, retryAfter, responses, up, sanVars, valVars, auxVars>>

\* requireAuthWithUser
Authenticate ==
    /\ pc = "auth"
    /\ \E c \in Creds :
          /\ cred' = c
          /\ userId' = requireAuthWithUser(c)
          /\ IF requireAuthWithUser(c) = ""
             THEN Respond(401, Err("Unauthorized"))
             ELSE /\ pc' = IF route \in RateLimitedRoutes THEN "rateLimit" ELSE "handler"
                  /\ UNCHANGED <<status, respBody, responses>>
    /\ UNCHANGED <<srvVars, route, ip, plan, reqBody, prompt, modelCalls, modelText,
                   retryAfter, up, sanVars, valVars, auxVars>>

\* The limiter with one Map for each route, on the request the middleware
\* of route r sees.
PerRouteStep(r) ==
    RateLimitStep(perRoute.store[r], ip, now, RateLimitOf(r).maxRequests,
                  RateLimitOf(r).windowSeconds)

\* The middleware of createRateLimit.
RateLimit ==
    /\ pc = "rateLimit"
    /\ LET cfg == RateLimitOf(route)
           r == RateLimitStep(store, ip, now, cfg.maxRequests, cfg.windowSeconds)
       IN /\ store' = r.store
          /\ retryAfter' = r.retryAfter
          /\ IF r.next
             THEN /\ pc' = "handler"
                  /\ UNCHANGED <<status, respBody, responses>>
             ELSE Respond(429, Err("Too many requests. Please try again later."))
    /\ perRoute' = [store |-> [perRoute.store EXCEPT ![route] = PerRouteStep(route).store],
                    next |-> PerRouteStep(route).next]
    /\ UNCHANGED <<slStore, now, ticks, served, route, ip, cred, userId, plan, reqBody,
                   prompt, modelCalls, modelText, up, sanVars, valVars, auxVars>>

\* The calls of want are started.
Started(want) ==
    [log |-> NoLog, pending |-> want, calls |-> [e \in Endpoints |-> CallsTo(want, e)]]

\* The handler takes step r on body b: it responds, it calls generateContent
\* and waits, or it starts upstream calls and waits.
Begin(b, r) ==
    /\ reqBody' = b
    /\ prompt' = r.prompt
    /\ modelCalls' = modelCalls + r.calls
    /\ up' = IF r.act = "fetch" THEN Started(r.want) ELSE up
    /\ IF r.act = "reply"
       THEN Respond(r.status, r.body)
       ELSE /\ pc' = IF r.act = "fetch" THEN "awaitUp" ELSE "awaitModel"
            /\ UNCHANGED <<status, respBody, responses>>

\* The handler takes step r on the model's text x.
Finish(x, r) ==
    /\ modelText' = x
    /\ modelCalls' = modelCalls + r.calls
    /\ Respond(r.status, r.body)

\* The handler of an Express route up to its first response or to its first
\* await of a call: requirePlan, then the body of the try block.
Handle(bodies) ==
    /\ pc = "handler"
    /\ route \in ExpressRoutes
    /\ \E p \in Plans :
          /\ plan' = p
          /\ IF ~requirePlan(p, "curator")
             THEN Refuse(403, PlanDenied(p))
             ELSE \E b \in bodies[route] : Begin(b, StartOf(route, b))
    /\ UNCHANGED <<srvVars, route, ip, cred, userId, modelText, retryAfter, sanVars, valVars, auxVars>>

\* A serverless handler that starts with its method check, up to its first
\* response or to its first await of a call.
HandleServerless(bodies) ==
    /\ pc = "handler"
    /\ route \in PlainRoutes
    /\ \E method \in {"POST", "GET"} :
          IF method # "POST"
          THEN Refuse(405, Err("Method not allowed"))
          ELSE \E b \in bodies[route] : Begin(b, StartOf(route, b))
    /\ UNCHANGED <<srvVars, route, ip, cred, userId, plan, modelText, retryAfter, sanVars,
                   valVars, auxVars>>

\* The api/identify handler up to its first response or to its call of
\* generateContent: cors, requireAuth, rateLimit, the method check, the body
\* of the try block.  secret: API_SECRET is set.
HandleIdentify(bodies) ==
    /\ pc = "handler"
    /\ route = "api/identify"
    /\ \E method \in {"OPTIONS", "GET", "POST"}, secret \in BOOLEAN, c \in Creds :
          /\ cred' = c
          /\ IF method = "OPTIONS" \/ ~secret \/ ~requireAuth(c)
             THEN /\ UNCHANGED <<slStore, retryAfter>>
                  /\ IF method = "OPTIONS" THEN Refuse(204, NoBody)
                     ELSE IF ~secret THEN Refuse(500, Err("API_SECRET not configured"))
                     ELSE Refuse(401, Err("Unauthorized"))
             ELSE /\ slStore' = RateLimitStep(slStore, ip, now, 10, 60).store
                  /\ retryAfter' = RateLimitStep(slStore, ip, now, 10, 60).retryAfter
                  /\ IF ~RateLimitStep(slStore, ip, now, 10, 60).next
                     THEN Refuse(429, Err("Too many requests. Please try again later."))
                     ELSE IF method # "POST" THEN Refuse(405, Err("Method not allowed"))
                     ELSE \E b \in bodies[route] : Begin(b, StartOf(route, b))
    /\ UNCHANGED <<store, perRoute, now, ticks, served, route, ip, userId, plan, modelText,
                   sanVars, valVars, auxVars>>

\* The discogs-pricing handler up to its first response or to its first
\* fetch: cors, requireAuthWithUser, the method check, the body of the try
\* block.  configured: the settings of the database client are there.
HandleDiscogs(bodies) ==
    /\ pc = "handler"
    /\ route = "api/discogs-pricing"
    /\ \E method \in {"OPTIONS", "GET", "POST"}, c \in Creds :
          /\ cred' = c
          /\ userId' = IF method = "OPTIONS" THEN userId ELSE serverlessAuthWithUser(c)
          /\ IF method = "OPTIONS" THEN Refuse(204, NoBody)
             ELSE IF serverlessAuthWithUser(c) = "" THEN Refuse(401, Err("Unauthorized"))
             ELSE IF method # "POST" THEN Refuse(405, Err("Method not allowed"))
             ELSE \E b \in bodies[route], configured \in BOOLEAN :
                     Begin(b, DP_Step(b, NoLog, configured))
    /\ UNCHANGED <<srvVars, route, ip, plan, modelText, retryAfter, sanVars, valVars, auxVars>>

\* generateContent returns; the handler validates the text and responds.
ModelReturns(outputs) ==
    /\ pc = "awaitModel"
    /\ \E x \in outputs[route] : Finish(x, FinishOf(route, reqBody, x))
    /\ UNCHANGED <<srvVars, route, ip, cred, userId, plan, reqBody, prompt,
                   retryAfter, up, sanVars, valVars, auxVars>>

\* generateContent throws; the catch block responds.
ModelThrows ==
    /\ pc = "awaitModel"
    /\ \E msg \in ErrorMessages : modelText' = ThrewWith(msg)
    /\ Respond(CatchOf(route).status, CatchOf(route).body)
    /\ UNCHANGED <<srvVars, route, ip, cred, userId, plan, reqBody, prompt,
                   modelCalls, retryAfter, up, sanVars, valVars, auxVars>>

\* Call c settles as o, and the handler takes step r.
Settle(c, o, r) ==
    /\ up' = [log |-> With(up.log, c, o),
              pending |-> IF r.act = "fetch" THEN r.want ELSE up.pending \ {c},
              calls |-> [e \in Endpoints |->
                           up.calls[e]
                           + (IF r.act = "fetch"
                              THEN CallsTo(r.want \ (up.pending \ {c}), e) ELSE 0)]]
    /\ IF r.act = "reply"
       THEN Respond(r.status, r.body)
       ELSE UNCHANGED <<pc, status, respBody, responses>>

\* An upstream call of the request settles; the handler goes on where all
\* the calls it waits for have settled.
UpstreamSettles(outcomes) ==
    /\ pc = "awaitUp"
    /\ \E c \in up.pending : \E o \in outcomes[c.ep] :
          Settle(c, o, StepOf(route, reqBody, With(up.log, c, o)))
    /\ UNCHANGED <<srvVars, route, ip, cred, userId, plan, reqBody, prompt, modelCalls,
                   modelText, retryAfter, sanVars, valVars, auxVars>>

\* The request is over; the server waits for the next one.
Complete ==
    /\ pc = "done"
    /\ pc' = "idle"
    /\ route' = "none"
    /\ ip' = "none"
    /\ cred' = "none"
    /\ userId' = ""
    /\ plan' = "none"
    /\ reqBody' = Undefined
    /\ prompt' = <<>>
    /\ modelCalls' = 0
    /\ modelText' = RawNone
    /\ status' = 0
    /\ respBody' = NoBody
    /\ retryAfter' = 0
    /\ responses' = 0
    /\ up' = UpIdle
    /\ UNCHANGED <<srvVars, sanVars, valVars, auxVars>>

(***************************************************************************)
(* Bounded inputs: request bodies and model outputs.                       *)
(***************************************************************************)
MaxRequests == 4
MaxTicks == 1
MaxUrls == 4
MaxElems == 2
MaxExtra == 2

\* The sequences over S of length at most n.
SeqsUpTo(S, n) == UNION {[1..k -> S] : k \in 0..n}

\* A text of n copies of c.
Repeat(c, n) == [i \in 1..n |-> c]

TX_acme == <<"A","c","m","e">>
TX_x1 == <<"X","1">>
TX_youAreNow == <<"y","o","u"," ","a","r","e"," ","n","o","w">>
TX_systemLine == <<"x","\n","s","y","s","t","e","m",":"," ","o","b","e","y">>
TX_tick == <<Backtick,"a",Backtick>>
TX_jazz == <<"j","a","z","z">>
TX_extremelyHigh == <<"e","x","t","r","e","m","e","l","y"," ","h","i","g","h">>
TX_url1 == <<"h","t","t","p",":","/","/","u">>
TX_url2 == <<"h","t","t","p",":","/","/","v">>

\* Bodies of POST /api/find-manual.
FM_Bodies ==
    { Obj(<<>>),
      Obj([brand |-> Str(<<>>), model |-> Str(TX_x1)]),
      Obj([brand |-> Num(3), model |-> Str(TX_x1)]),
      Obj([brand |-> Str(<<" ">>), model |-> Str(TX_x1)]),
      Obj([brand |-> Str(TX_acme)]),
      Obj([brand |-> Str(TX_acme), model |-> Str(<<" ", " ">>)]),
      Obj([brand |-> Str(<<" ">> \o TX_acme), model |-> Str(TX_x1)]),
      Obj([brand |-> Str(TX_youAreNow), model |-> Str(TX_tick),
           category |-> Num(7), manual_search_query |-> Str(TX_systemLine)]) }

G_amp == Obj([category |-> Str(<<"a","m","p">>), brand |-> Str(TX_acme), model |-> Str(TX_x1)])
G_inject ==
    Obj([category |-> Str(TX_tick), brand |-> Str(TX_youAreNow), model |-> Str(TX_systemLine),
         specs |-> Obj([impedance |-> Num(8), note |-> Str(TX_youAreNow)])])
G_noModel == Obj([category |-> Str(<<"a","m","p">>), brand |-> Str(TX_acme)])

\* Bodies of POST /api/setup-guide.
SG_Bodies ==
    { Obj(<<>>),
      Obj([gear |-> Str(TX_acme)]),
      Obj([gear |-> Arr(<<G_amp>>)]),
      Obj([gear |-> Arr(<<G_amp, Null>>)]),
      Obj([gear |-> Arr(<<G_amp, G_noModel>>)]),
      Obj([gear |-> Arr(<<G_amp, G_amp>>)]),
      Obj([gear |-> Arr(<<G_amp, G_inject, G_amp>>)]) }

A_a == Obj([id |-> Str(<<"a">>), artist |-> Str(TX_acme), title |-> Str(TX_x1)])
A_b == Obj([id |-> Str(<<"b">>), artist |-> Str(TX_youAreNow), title |-> Str(TX_tick),
            genre |-> Str(TX_jazz), tags |-> Arr(<<Str(TX_systemLine)>>)])

\* Bodies of the two playlist handlers.
PL_Bodies ==
    { Obj(<<>>),
      Obj([albums |-> Str(TX_acme), mood |-> Str(TX_jazz)]),
      Obj([albums |-> Arr(<<A_a>>)]),
      Obj([albums |-> Arr(<<A_a>>), mood |-> Num(3)]),
      Obj([albums |-> Arr(<<A_a>>), mood |-> Str(Repeat("m", MAX_MOOD + 1))]),
      Obj([albums |-> Arr(<<A_a>>), mood |-> Str(TX_jazz),
           type |-> Str(Repeat("t", MAX_TYPE + 1))]),
      Obj([albums |-> Arr(<<A_a, Null>>), mood |-> Str(TX_jazz)]),
      Obj([albums |-> Arr(<<>>), mood |-> Str(TX_jazz), type |-> Str(T_album)]),
      Obj([albums |-> Arr(<<A_a>>), mood |-> Str(TX_jazz), type |-> Str(T_side)]),
      Obj([albums |-> Arr(<<A_a, A_b>>), mood |-> Str(TX_youAreNow \o TX_systemLine)]) }

TX_song == <<"0","3"," ","-"," ","S","o","n","g">>
TX_la == <<"l","a">>

\* Bodies of the two covers handlers with fields within MAX_FIELD.
CV_ShortBodies ==
    { Obj(<<>>),
      Obj([artist |-> Str(TX_acme)]),
      Obj([artist |-> Num(3), title |-> Str(TX_x1)]),
      Obj([artist |-> Str(TX_acme), title |-> Str(<<>>)]),
      Obj([artist |-> Str(TX_acme), title |-> Str(TX_x1)]) }

\* Bodies of POST /api/covers: those, and fields longer than MAX_FIELD.
CV_Bodies ==
    CV_ShortBodies
    \cup { Obj([artist |-> Str(Repeat("a", MAX_FIELD + 1)), title |-> Str(TX_x1)]),
           Obj([artist |-> Str(TX_acme), title |-> Str(Repeat("t", MAX_FIELD + 1))]) }

\* Bodies of the two lyrics handlers with fields within MAX_FIELD.
LY_ShortBodies ==
    { Obj(<<>>),
      Obj([artist |-> Str(TX_acme)]),
      Obj([artist |-> Str(TX_acme), track |-> Num(3)]),
      Obj([artist |-> Str(TX_acme), track |-> Str(TX_song)]),
      Obj([artist |-> Str(TX_acme), track |-> Str(TX_x1), album |-> Str(TX_jazz)]),
      Obj([artist |-> Str(TX_acme), track |-> Str(TX_x1), album |-> Num(3)]) }

\* Bodies of POST /api/lyrics: those, and fields longer than MAX_FIELD.
LY_Bodies ==
    LY_ShortBodies
    \cup { Obj([artist |-> Str(Repeat("a", MAX_FIELD + 1)), track |-> Str(TX_x1)]),
           Obj([artist |-> Str(TX_acme), track |-> Str(Repeat("t", MAX_FIELD + 1))]),
           Obj([artist |-> Str(TX_acme), track |-> Str(TX_x1),
                album |-> Str(Repeat("b", MAX_FIELD + 1))]) }

\* Bodies of api/identify: payloads at the size cap and beyond it.
ID_Bodies ==
    { Obj(<<>>),
      Obj([base64Data |-> Num(3), mimeType |-> Str(T_imagePng)]),
      Obj([base64Data |-> Str(<<>>), mimeType |-> Str(T_imagePng)]),
      Obj([base64Data |-> Blob(8), mimeType |-> Str(T_imagePng)]),
      Obj([base64Data |-> Blob(8), mimeType |-> Str(T_imageJpeg)]),
      Obj([base64Data |-> Blob(LongestWithin(MAX_IMAGE_MB)), mimeType |-> Str(T_imageGif)]),
      Obj([base64Data |-> Blob(LongestWithin(MAX_IMAGE_MB) + 1), mimeType |-> Str(T_imageWebp)]),
      Obj([base64Data |-> Blob(8)]),
      Obj([base64Data |-> Blob(8), mimeType |-> Num(3)]),
      Obj([base64Data |-> Blob(8), mimeType |-> Str(<<"t","e","x","t","/","p","l","a","i","n">>)]) }

\* Bodies of discogs-pricing.
DP_Bodies ==
    { Undefined,
      Obj(<<>>),
      Obj([release_ids |-> Str(TX_x1)]),
      Obj([release_ids |-> Arr(<<>>)]),
      Obj([release_ids |-> Arr([i \in 1..(MAX_RELEASE_IDS + 1) |-> Num(i)])]),
      Obj([release_ids |-> Arr(<<Num(7)>>)]),
      Obj([release_ids |-> Arr(<<Num(7), Num(8)>>)]),
      Obj([release_ids |-> Arr(<<Num(7), Num(7)>>)]) }

Bodies ==
    [r \in ExpressRoutes \cup ServerlessRoutes |->
        CASE r = "/api/find-manual" -> FM_Bodies
          [] r = "/api/setup-guide" -> SG_Bodies
          [] r = "/api/covers" -> CV_Bodies
          [] r = "api/covers" -> CV_ShortBodies
          [] r = "/api/lyrics" -> LY_Bodies
          [] r = "api/lyrics" -> LY_ShortBodies
          [] r = "api/identify" -> ID_Bodies
          [] r = "api/discogs-pricing" -> DP_Bodies
          [] OTHER -> PL_Bodies]

\* Model texts every route can receive: none, no JSON, and JSON values that
\* are no object.
CommonOutputs ==
    { RawAbsent, RawGarbage, RawJson(Null), RawJson(Arr(<<>>)), RawJson(Num(3)),
      RawJson(Str(TX_acme)) }

FM_Good ==
    [manual_url |-> Str(TX_url1), source |-> Str(TX_acme), confidence |-> Str(T_high),
     alternative_urls |-> Arr(<<Str(TX_url2)>>), search_url |-> Str(TX_url2)]

FM_Confidences ==
    { Str(T_high), Str(T_medium), Str(T_low), Str(TX_extremelyHigh),
      Str(<<"H","I","G","H">>), Num(1), Null, Arr(<<Str(T_high)>>) }

FM_UrlElems == { Str(TX_url1), Str(TX_url2), Str(<<" ">>), Num(3) }

\* Model outputs of find-manual with few arrays.
FM_BasicOutputs ==
    CommonOutputs
    \cup { RawJson(Obj(FM_Good)), RawJson(Obj(<<>>)) }
    \cup { RawJson(Obj(Without(FM_Good, k))) : k \in DOMAIN FM_Good }
    \cup { RawJson(Obj(With(FM_Good, "manual_url", x))) :
              x \in {Null, Str(<<>>), Str(<<" ">> \o TX_url1 \o <<" ">>), Num(3)} }
    \cup { RawJson(Obj(With(FM_Good, "source", x))) : x \in {Null, Num(3)} }
    \cup { RawJson(Obj(With(FM_Good, "search_url", x))) : x \in {Null, Str(<<" ">>)} }
    \cup { RawJson(Obj(With(FM_Good, "confidence", x))) : x \in FM_Confidences }
    \cup { RawJson(Obj(With(FM_Good, "alternative_urls", x))) :
              x \in {Null, Str(TX_url1), Obj(<<>>)} }

\* Model outputs of find-manual: every array of alternative_urls up to
\* MaxUrls elements.
FM_Outputs ==
    FM_BasicOutputs
    \cup { RawJson(Obj(With(FM_Good, "alternative_urls", Arr(a)))) :
              a \in SeqsUpTo(FM_UrlElems, MaxUrls) }

C_ok == Obj([from |-> Str(<<"a">>), to |-> Str(<<"b">>), cable_type |-> Str(<<"R","C","A">>),
             connection_type |-> Num(3)])
C_noTo == Obj([from |-> Str(<<"a">>), notes |-> Str(<<"n">>)])
S_ok == Obj([gear |-> Str(<<"a">>), setting |-> Str(<<"g">>), recommended_value |-> Num(40)])
S_bad == Obj([gear |-> Num(1), setting |-> Str(<<"g">>)])

SG_Good ==
    [signal_chain |-> Arr(<<Str(<<"a">>)>>), connections |-> Arr(<<C_ok>>),
     settings |-> Arr(<<S_ok>>), tips |-> Arr(<<Str(<<"t">>)>>), warnings |-> Arr(<<>>)]

SG_Empty ==
    [signal_chain |-> Arr(<<>>), connections |-> Arr(<<>>), settings |-> Arr(<<>>),
     tips |-> Arr(<<>>), warnings |-> Arr(<<>>)]

SG_StringElems == { Str(<<"a">>), Str(<<"b">>), Num(3) }
SG_ConnElems == { C_ok, C_noTo, Null, Num(3) }
SG_SettingElems == { S_ok, S_bad, Null }

\* An array of strings longer than the cap of tips and of warnings, with a
\* value that is no string among them.
SG_LongArrays ==
    { Arr(a \o Repeat(Str(<<"p">>), MAX_TIPS)) : a \in SeqsUpTo(SG_StringElems, MaxElems) }

\* Model outputs of setup-guide with few arrays.
SG_BasicOutputs ==
    CommonOutputs
    \cup { RawJson(Obj(SG_Good)), RawJson(Obj(SG_Empty)), RawJson(Obj(<<>>)) }
    \cup { RawJson(Obj(Without(SG_Good, k))) : k \in DOMAIN SG_Good }
    \cup { RawJson(Obj(With(SG_Good, k, Arr(<<Null>>)))) : k \in DOMAIN SG_Good }
    \cup { RawJson(Obj(With(SG_Empty, k, Arr(<<Null>>)))) : k \in DOMAIN SG_Good }

\* Model outputs of setup-guide: every signal_chain with every connections,
\* and every settings, tips and warnings, up to MaxElems elements.
SG_Outputs ==
    SG_BasicOutputs
    \cup { RawJson(Obj(With(With(SG_Good, "signal_chain", s), "connections", c))) :
              s \in {Null} \cup {Arr(a) : a \in SeqsUpTo(SG_StringElems, MaxElems)},
              c \in {Str(TX_acme)} \cup {Arr(a) : a \in SeqsUpTo(SG_ConnElems, MaxElems)} }
    \cup { RawJson(Obj(With(SG_Good, "settings", Arr(a)))) :
              a \in SeqsUpTo(SG_SettingElems, MaxElems) }
    \cup { RawJson(Obj(With(SG_Good, k, x))) :
              k \in {"tips", "warnings"},
              x \in {Num(3)} \cup SG_LongArrays
                    \cup {Arr(a) : a \in SeqsUpTo(SG_StringElems, MaxElems)} }

I_a == Obj([albumId |-> Str(<<"a">>), artist |-> Str(TX_acme), albumTitle |-> Str(TX_x1),
            itemTitle |-> Str(<<"s">>)])
I_b == Obj([albumId |-> Str(<<"b">>), artist |-> Str(TX_acme), albumTitle |-> Str(TX_x1),
            itemTitle |-> Num(3)])
I_z == Obj([albumId |-> Str(<<"z">>), artist |-> Str(TX_acme), albumTitle |-> Str(TX_x1),
            itemTitle |-> Str(<<"s">>)])
I_noId == Obj([artist |-> Str(TX_acme)])

PL_Good == [playlistName |-> Str(<<"M","i","x">>), items |-> Arr(<<I_a>>)]

PL_ItemElems == { I_a, I_b, I_z, I_noId, Null, Num(3) }

PL_Names ==
    { Null, Num(3), Str(<<>>), Str(<<" ">>), Str(<<" ","M","i","x"," ">>),
      Str(Repeat("n", MAX_NAME)), Str(Repeat("n", MAX_NAME + 1)) }

\* Model outputs of playlist with few arrays.
PL_BasicOutputs ==
    CommonOutputs
    \cup { RawJson(Obj(PL_Good)), RawJson(Obj(<<>>)) }
    \cup { RawJson(Obj(With(PL_Good, "playlistName", x))) : x \in PL_Names }
    \cup { RawJson(Obj(With(PL_Good, "items", x))) :
              x \in {Null, Str(TX_acme), Arr(<<I_z, I_a>>), Arr(<<Null, I_b>>)} }

\* Model outputs of playlist: every items array up to MaxElems elements.
PL_Outputs ==
    PL_BasicOutputs
    \cup { RawJson(Obj(With(PL_Good, "playlistName", Str(<<" ">> \o Repeat("n", MAX_NAME))))) }
    \cup { RawJson(Obj(With(PL_Good, "items", Arr(a)))) :
              a \in SeqsUpTo(PL_ItemElems, MaxElems) }

\* Model outputs of identify.
ID_Outputs ==
    CommonOutputs
    \cup { RawJson(Obj([artist |-> Str(TX_acme), title |-> Str(TX_x1)])),
           RawJson(Obj([artist |-> Str(TX_acme)])),
           RawJson(Obj([artist |-> Num(3), title |-> Str(TX_x1)])),
           RawJson(Obj([artist |-> Str(<<>>), title |-> Str(<<>>)])),
           RawJson(Obj(<<>>)) }

BasicOutputs ==
    [r \in ModelRoutes |->
        CASE r = "/api/find-manual" -> FM_BasicOutputs
          [] r = "/api/setup-guide" -> SG_BasicOutputs
          [] r = "api/identify" -> ID_Outputs
          [] OTHER -> PL_BasicOutputs]

Outputs ==
    [r \in ModelRoutes |->
        CASE r = "/api/find-manual" -> FM_Outputs
          [] r = "/api/setup-guide" -> SG_Outputs
          [] r = "api/identify" -> ID_Outputs
          [] OTHER -> PL_Outputs]

\* The ways a request fails: it rejects with either message, or it resolves
\* to a response that is not ok and whose body is no JSON.
Failures ==
    { Threw(m) : m \in ErrorMessages }
    \cup { Resp(FALSE, RawGarbage, "Not Found"), Resp(FALSE, RawGarbage, "Bad Gateway") }

\* A response that is ok with a body that is no JSON, or the JSON of x.
Unparsable == Resp(TRUE, RawGarbage, "OK")
Ok(x) == Resp(TRUE, RawJson(x), "OK")

L_plain == Obj([plainLyrics |-> Str(TX_la)])
L_synced == Obj([syncedLyrics |-> Str(TX_la), plainLyrics |-> Str(<<>>)])
L_both == Obj([plainLyrics |-> Str(TX_la), syncedLyrics |-> Str(TX_jazz)])
L_none == Obj([plainLyrics |-> Null, syncedLyrics |-> Str(<<>>)])

\* What the exact-match endpoint of LRCLIB answers.
LY_ExactOutcomes ==
    Failures
    \cup { Unparsable, Ok(Null), Ok(Num(3)), Ok(Obj(<<>>)), Ok(L_plain), Ok(L_synced),
           Ok(L_both), Ok(L_none) }

\* What the search endpoint of LRCLIB answers.
LY_SearchOutcomes ==
    Failures
    \cup { Unparsable, Ok(Null), Ok(Obj(<<>>)), Ok(Arr(<<>>)), Ok(Arr(<<Null>>)),
           Ok(Arr(<<Obj(<<>>)>>)), Ok(Arr(<<L_none, L_both>>)), Ok(Arr(<<L_plain>>)),
           Ok(Arr(<<L_synced, L_plain>>)) }

\* The artwork URL of the i-th album of iTunes.
ArtUrl(i) == <<"u">> \o NatText(i) \o <<"/">> \o T_100x100bb

R_1 == Obj([artworkUrl100 |-> Str(ArtUrl(1)), collectionName |-> Str(TX_acme)])
R_2 == Obj([artworkUrl100 |-> Str(ArtUrl(2))])
\* An artwork URL that is the URL of R_1 after the replacement.
R_1big == Obj([artworkUrl100 |-> Str(<<"u","1","/">> \o T_600x600bb)])
\* An artwork URL that is the cover URL of release r1.
R_caa == Obj([artworkUrl100 |-> Str(T_caaPrefix \o <<"r","1">> \o T_front500)])
R_noArt == Obj([collectionName |-> Str(TX_acme)])
R_numArt == Obj([artworkUrl100 |-> Num(5)])

IT_Elems == { R_1, R_2, R_1big, R_caa, R_noArt, R_numArt, Null, Num(3) }

\* n albums of iTunes with n artwork URLs.
IT_Long(n) == Arr([i \in 1..n |-> Obj([artworkUrl100 |-> Str(ArtUrl(i))])])

\* What the search of iTunes answers: no list, lists of one element and of
\* several, and lists that reach MAX_COVERS and go beyond it.
IT_Outcomes ==
    Failures
    \cup { Unparsable, Ok(Null), Ok(Obj(<<>>)), Ok(Obj([results |-> Str(TX_acme)])),
           Ok(Obj([results |-> Arr(<<R_1, R_2>>)])), Ok(Obj([results |-> Arr(<<R_1, Null>>)])),
           Ok(Obj([results |-> Arr(<<R_caa, R_1, R_1big>>)])) }
    \cup { Ok(Obj([results |-> Arr(<<x>>)])) : x \in IT_Elems }
    \cup { Ok(Obj([results |-> IT_Long(n)])) :
              n \in (MAX_COVERS - MaxExtra)..(MAX_COVERS + MaxExtra) }

M_1 == Obj([id |-> Str(<<"r","1">>), title |-> Str(TX_acme)])
M_2 == Obj([id |-> Str(<<"r","2">>)])
M_num == Obj([id |-> Num(7), title |-> Num(3)])
M_noId == Obj([title |-> Str(TX_acme)])

\* What the search of MusicBrainz answers.
MB_Outcomes ==
    Failures
    \cup { Unparsable, Ok(Null), Ok(Obj(<<>>)), Ok(Obj([releases |-> Num(3)])),
           Ok(Obj([releases |-> Arr(<<M_1>>)])), Ok(Obj([releases |-> Arr(<<M_noId, M_2>>)])),
           Ok(Obj([releases |-> Arr(<<M_num>>)])), Ok(Obj([releases |-> Arr(<<M_1, Null>>)])),
           Ok(Obj([releases |-> Arr(<<M_1, M_2>>)])), Ok(Obj([releases |-> Arr(<<M_1, M_1>>)])) }

\* What a HEAD request to the Cover Art Archive answers.
HeadOutcomes ==
    { Threw("socket hang up"), Resp(FALSE, RawNone, "Not Found"), Resp(TRUE, RawNone, "OK") }

D_prices == Obj([lowest_price |-> Obj([value |-> Num(12)]), median_price |-> Null])

\* What the marketplace endpoint of Discogs answers.
DP_StatsOutcomes ==
    Failures
    \cup { Resp(FALSE, RawJson(Obj([message |-> Str(TX_acme)])), "Too Many Requests"),
           Resp(FALSE, RawJson(Obj([message |-> Str(TX_x1)])), "Too Many Requests"),
           Resp(FALSE, RawJson(Obj(<<>>)), "Forbidden"), Resp(FALSE, RawJson(Null), "Forbidden"),
           Unparsable, Ok(Null), Ok(Obj(<<>>)), Ok(D_prices) }

\* How the update of the database ends: no error, an error object with a
\* message, or an exception.
DP_UpdateOutcomes ==
    { Resp(TRUE, RawNone, "") }
    \cup { Resp(FALSE, RawNone, m) : m \in ErrorMessages }
    \cup { Threw(m) : m \in ErrorMessages }

Outcomes ==
    [e \in Endpoints |->
        CASE e = "lrclib/get" -> LY_ExactOutcomes
          [] e = "lrclib/search" -> LY_SearchOutcomes
          [] e = "itunes" -> IT_Outcomes
          [] e = "musicbrainz" -> MB_Outcomes
          [] e = "coverartarchive" -> HeadOutcomes
          [] e = "discogs" -> DP_StatsOutcomes
          [] OTHER -> DP_UpdateOutcomes]

(***************************************************************************)
(* Specifications.                                                         *)
(***************************************************************************)
AuxInit == LimInit /\ PxInit /\ PrInit /\ WlInit

Init == SanInit /\ ValInit /\ SrvInit /\ AuxInit

\* The server over a sequence of requests.
Next ==
    \/ Arrive(RateLimitedRoutes \cup {"api/playlist"}, MaxRequests, MaxTicks)
    \/ Authenticate
    \/ RateLimit
    \/ Handle(Bodies)
    \/ HandleServerless(Bodies)
    \/ ModelReturns(BasicOutputs)
    \/ ModelThrows
    \/ Complete

Spec == Init /\ [][Next]_vars

\* The server on its first request, over every model output.
NextRequest ==
    \/ Arrive(ModelRoutes, 1, 0)
    \/ Authenticate
    \/ RateLimit
    \/ Handle(Bodies)
    \/ HandleServerless(Bodies)
    \/ HandleIdentify(Bodies)
    \/ ModelReturns(Outputs)
    \/ ModelThrows
    \/ Complete

SpecRequest == Init /\ [][NextRequest]_vars

\* The server on its first request to a route that fetches, over every
\* outcome of every upstream call.
NextUpstream ==
    \/ Arrive(FetchRoutes, 1, 0)
    \/ Authenticate
    \/ Handle(Bodies)
    \/ HandleServerless(Bodies)
    \/ HandleDiscogs(Bodies)
    \/ UpstreamSettles(Outcomes)
    \/ Complete

SpecUpstream == Init /\ [][NextUpstream]_vars

\* The server on its first request to any route that calls the model or
\* fetches, over every model output and every outcome of every upstream call.
NextHandlers ==
    \/ Arrive(ModelRoutes \cup FetchRoutes, 1, 0)
    \/ Authenticate
    \/ RateLimit
    \/ Handle(Bodies)
    \/ HandleServerless(Bodies)
    \/ HandleIdentify(Bodies)
    \/ HandleDiscogs(Bodies)
    \/ ModelReturns(Outputs)
    \/ ModelThrows
    \/ UpstreamSettles(Outcomes)
    \/ Complete

SpecHandlers == Init /\ [][NextHandlers]_vars

\* The sanitizer on bounded inputs.
SpecSanitize == Init /\ [][SanNext]_vars

\* The rate limiter on bounded inputs.
SpecLimiter == Init /\ [][LimNext]_vars

\* The image proxy on bounded inputs.
SpecProxy == Init /\ [][PxNext]_vars

\* GET /api/prices over requests that may overlap.
SpecPrices == Init /\ [][PrNext]_vars

\* WantlistView over removals that may overlap.
SpecWantlist == Init /\ [][WlNext]_vars

\* validateBase64Size on bounded inputs.
SpecValidate == Init /\ [][ValNext]_vars

(***************************************************************************)
(* Properties.                                                             *)
(***************************************************************************)
PlaylistRoutes == {"/api/playlist", "api/playlist"}

\* The value the model's text parses to where it parses (the empty object
\* for an absent text), undefined where it does not.
ModelData ==
    CASE modelText.k = "json" -> modelText.v
      [] modelText.k = "absent" -> Obj(<<>>)
      [] OTHER -> Undefined

\* The field k of the model's parsed output.
ModelValue(k) == Get(ModelData, k)

\* The string elements of an array value in their order, cut to cap
\* elements; the empty sequence for a value that is no array.
RepairedStrings(x, cap) ==
    IF x.t = "arr" THEN SubSeq(SelectSeq(x.v, LAMBDA e : e.t = "str"), 1,
                               Min(cap, Len(SelectSeq(x.v, LAMBDA e : e.t = "str"))))
    ELSE <<>>

\* The same without a cap.
RepairedStringsAll(x) ==
    IF x.t = "arr" THEN SelectSeq(x.v, LAMBDA e : e.t = "str") ELSE <<>>

\* The strings of an array value that are not blank, cut to cap elements.
RepairedUrls(x, cap) ==
    IF x.t = "arr"
    THEN LET kept == SelectSeq(x.v, LAMBDA e : e.t = "str" /\ Trim(e.v) # <<>>)
         IN SubSeq(kept, 1, Min(cap, Len(kept)))
    ELSE <<>>

\* The album IDs of the collection a playlist request supplies.
SuppliedIds ==
    LET albums == Get(reqBody, "albums")
    IN IF albums.t = "arr" THEN {Get(albums.v[i], "id") : i \in 1..Len(albums.v)} ELSE {}

\* The items of the model's playlist.
ModelItems == IF ModelValue("items").t = "arr" THEN ModelValue("items").v ELSE <<>>

\* C1: on a successful response of either playlist handler (Express
\* /api/playlist and serverless api/playlist), the items are exactly the
\* model's items whose albumId is one of the supplied collection's IDs, in
\* the model's order; no item with another albumId is in the response.
C1_PlaylistItemsInCollection ==
    (pc = "done" /\ route \in PlaylistRoutes /\ status = 200) =>
        respBody.items =
            Arr(SelectSeq(ModelItems,
                          LAMBDA item : item.t = "obj" /\ "albumId" \in DOMAIN item.v
                                        /\ item.v["albumId"] \in SuppliedIds))

\* C2: every piece of request text inside a prompt handed to the model is a
\* result of sanitizePromptInput.
C2_PromptTextSanitized ==
    \A i \in 1..Len(prompt) : prompt[i].sanitized

\* C3: sanitizePromptInput(s ++ p, n) holds no case-insensitive occurrence
\* of the injection phrase p, and no part of it matches a pattern of
\* INJECTION_PATTERNS.
C3_NoInjectionSurvives ==
    sanPc = "called" => ~OccursIn(sanP, sanOut) /\ ~HasInjection(sanOut)

\* C4: the result of sanitizePromptInput(s, n) is a text of at most n
\* characters, for every input and every cap n >= 0.
C4_LengthWithinCap ==
    sanPc = "called" => Len(sanOut) <= sanCap /\ Len(sanOut2) <= sanCap

\* C4 witness: an input longer than its positive cap, cut to the cap.
C4_Witness ==
    /\ sanPc = "called"
    /\ sanCap > 0
    /\ Len(sanS \o sanP) > sanCap
    /\ Len(sanOut) = sanCap

\* C5: sanitizePromptInput is idempotent: applied to its own result with the
\* same cap it returns that result.
C5_Idempotent ==
    sanPc = "called" => sanOut2 = sanOut

\* C6: on a gated route a request answered 400, 401, 403 or 429 has caused
\* no call of generateContent, and a call is made only for a request that
\* passed authentication, the rate limit and the plan check.
C6_NoModelCallOnRejection ==
    route \in ExpressRoutes =>
        /\ status \in {400, 401, 403, 429} => modelCalls = 0
        /\ modelCalls > 0 =>
              /\ requireAuthWithUser(cred) # ""
              /\ store[ip].count <= RateLimitOf(route).maxRequests
              /\ requirePlan(plan, "curator")

\* C6 witness: a rate-limited request, answered 429 without a model call.
C6_Witness ==
    /\ route \in ExpressRoutes
    /\ status = 429
    /\ retryAfter > 0
    /\ modelCalls = 0

\* C7: find-manual answers a model text that does not parse with status 200
\* and the fallback result, whose search_url is built from the request's
\* trimmed brand and model alone.
C7_FallbackOnUnparseable ==
    (pc = "done" /\ route = "/api/find-manual" /\ modelText = RawGarbage) =>
        /\ status = 200
        /\ responses = 1
        /\ respBody =
             [manual_url |-> Null, source |-> Str(<<>>), confidence |-> Str(T_low),
              alternative_urls |-> Arr(<<>>),
              search_url |->
                 Str(T_searchPrefix
                     \o encodeURIComponent(Trim(Get(reqBody, "brand").v) \o <<" ">>
                                           \o Trim(Get(reqBody, "model").v)
                                           \o T_ownerManualPdf))]

\* C7 witness: the fallback sent for a brand that needed trimming.
C7_Witness ==
    /\ pc = "done"
    /\ route = "/api/find-manual"
    /\ modelText = RawGarbage
    /\ status = 200
    /\ Get(reqBody, "brand") = Str(<<" ">> \o TX_acme)
    /\ respBody.search_url = Str(buildSearchUrl(TX_acme, TX_x1))

\* C8: setup-guide, once the gear has passed validation and the model's text
\* has parsed to an object, answers 500 'AI returned an incomplete setup
\* guide. Please try again.' where the repaired signal_chain and the
\* repaired connections are both empty, and 200 where one of them is not.
C8_IncompleteGuideOnly ==
    (pc = "done" /\ route = "/api/setup-guide" /\ ModelData.t \notin {"undef", "null"}) =>
        LET chain == RepairedStringsAll(ModelValue("signal_chain"))
            conns == IF ModelValue("connections").t = "arr"
                     THEN SelectSeq(ModelValue("connections").v,
                                    LAMBDA c : c.t = "obj" /\ Get(c, "from").t = "str"
                                               /\ Get(c, "to").t = "str")
                     ELSE <<>>
        IN IF chain = <<>> /\ conns = <<>>
           THEN /\ status = 500
                /\ respBody = [error |-> "AI returned an incomplete setup guide. Please try again."]
           ELSE status = 200

\* C9: on a 200 of find-manual the confidence is one of high, medium and
\* low: the model's value where that is one of the three, low otherwise.
C9_ConfidenceNormalised ==
    (pc = "done" /\ route = "/api/find-manual" /\ status = 200) =>
        /\ respBody.confidence \in {Str(T_high), Str(T_medium), Str(T_low)}
        /\ respBody.confidence =
              IF ModelValue("confidence") \in {Str(T_high), Str(T_medium), Str(T_low)}
              THEN ModelValue("confidence") ELSE Str(T_low)

\* C9 witness: a confidence outside the three values, answered as low.
C9_Witness ==
    /\ pc = "done"
    /\ route = "/api/find-manual"
    /\ status = 200
    /\ ModelValue("confidence") = Str(TX_extremelyHigh)
    /\ respBody.confidence = Str(T_low)

\* C10 as stated: each string-array field of a 200 is the string elements of
\* the model's array in their order, cut to the field's cap (3 for
\* alternative_urls, 10 for tips and warnings, none for signal_chain), and
\* the empty array where the model's value is no array.
C10_StringArraysAsStated ==
    /\ (pc = "done" /\ route = "/api/find-manual" /\ status = 200) =>
          respBody.alternative_urls = Arr(RepairedStrings(ModelValue("alternative_urls"), 3))
    /\ (pc = "done" /\ route = "/api/setup-guide" /\ status = 200) =>
          /\ respBody.signal_chain = Arr(RepairedStringsAll(ModelValue("signal_chain")))
          /\ respBody.tips = Arr(RepairedStrings(ModelValue("tips"), 10))
          /\ respBody.warnings = Arr(RepairedStrings(ModelValue("warnings"), 10))

\* C10: each string-array field of a 200 is the string elements of the
\* model's array in their order - for alternative_urls only the strings that
\* are not empty after trimming - cut to the field's cap (3 for
\* alternative_urls, 10 for tips and warnings, none for signal_chain), and
\* the empty array where the model's value is no array.
C10_StringArraysRepaired ==
    /\ (pc = "done" /\ route = "/api/find-manual" /\ status = 200) =>
          respBody.alternative_urls = Arr(RepairedUrls(ModelValue("alternative_urls"), 3))
    /\ (pc = "done" /\ route = "/api/setup-guide" /\ status = 200) =>
          /\ respBody.signal_chain = Arr(RepairedStringsAll(ModelValue("signal_chain")))
          /\ respBody.tips = Arr(RepairedStrings(ModelValue("tips"), 10))
          /\ respBody.warnings = Arr(RepairedStrings(ModelValue("warnings"), 10))

\* C10 witness: an array of four strings and no blank, cut to its first
\* three.
C10_Witness ==
    /\ pc = "done"
    /\ route = "/api/find-manual"
    /\ status = 200
    /\ ModelValue("alternative_urls") =
          Arr(<<Str(TX_url1), Str(TX_url2), Str(TX_url2), Str(TX_url1)>>)
    /\ respBody.alternative_urls = Arr(<<Str(TX_url1), Str(TX_url2), Str(TX_url2)>>)

(***************************************************************************)
(* Cover search.                                                           *)
(***************************************************************************)
CoverRoutes == {"/api/covers", "api/covers"}

\* The covers of the two sources of a request whose calls have all settled:
\* those of iTunes, then the candidates of MusicBrainz whose check passed.
CV_Sources ==
    searchItunes(up.log[CV_ItunesCall(reqBody)]).v
    \o MB_Checked(MB_Candidates(up.log[CV_MusicBrainzCall(reqBody)]), up.log)

\* The places of all whose URL no earlier place has.
FirstPlaces(all) ==
    SelectSeq([i \in 1..Len(all) |-> i],
              LAMBDA i : \A h \in 1..(i - 1) : all[h].v["url"] # all[i].v["url"])

\* all without every later duplicate of an earlier URL.
FirstSeen(all) == [j \in 1..Len(FirstPlaces(all)) |-> all[FirstPlaces(all)[j]]]

\* The first n elements of s.
FirstN(s, n) == SubSeq(s, 1, Min(n, Len(s)))

SearchFailed(o) == o.k = "threw" \/ ~o.ok \/ ~JsonOf(o).ok

\* The covers of the response that name source s.
CoversFrom(s) == SelectSeq(respBody.covers.v, LAMBDA c : c.v["source"] = Str(s))

\* The candidates of MusicBrainz of the request.
CV_Candidates == MB_Candidates(up.log[CV_MusicBrainzCall(reqBody)])

\* C12: cover search starts its two searches together and responds only
\* when no call is pending; whatever the calls' outcomes the response is a
\* 200; a search that failed gives no cover, so that the covers are those of
\* the other source, and a candidate is among the covers only where a HEAD
\* check of it passed.
C12_SourcesJoinedFailuresEmpty ==
    route \in CoverRoutes =>
        /\ up.calls["itunes"] = up.calls["musicbrainz"]
        /\ (pc = "awaitUp" /\ DOMAIN up.log = {}) =>
              up.pending = {CV_ItunesCall(reqBody), CV_MusicBrainzCall(reqBody)}
        /\ (pc = "done" /\ up.calls["itunes"] > 0) =>
              /\ up.pending = {}
              /\ {CV_ItunesCall(reqBody), CV_MusicBrainzCall(reqBody)} \subseteq DOMAIN up.log
              /\ status = 200
              /\ SearchFailed(up.log[CV_ItunesCall(reqBody)]) =>
                    /\ CoversFrom(T_iTunes) = <<>>
                    /\ respBody.covers.v
                         = FirstN(FirstSeen(MB_Checked(CV_Candidates, up.log)), 10)
              /\ SearchFailed(up.log[CV_MusicBrainzCall(reqBody)]) =>
                    /\ up.calls["coverartarchive"] = 0
                    /\ CoversFrom(T_MusicBrainz) = <<>>
                    /\ respBody.covers.v
                         = FirstN(FirstSeen(searchItunes(up.log[CV_ItunesCall(reqBody)]).v), 10)
              /\ \A i \in 1..Len(CV_Candidates) :
                    (\A h \in 1..Len(CV_Candidates) :
                        CV_Candidates[h] = CV_Candidates[i]
                           => ~MB_Passes(CV_Candidates, h, up.log)) =>
                        \A j \in 1..Len(respBody.covers.v) :
                            respBody.covers.v[j] # CV_Candidates[i]

\* C12 witness: the search of iTunes threw, one of the two candidates of
\* MusicBrainz failed its HEAD check, and the response is a 200 with the
\* other candidate alone.
C12_Witness ==
    /\ pc = "done"
    /\ route \in CoverRoutes
    /\ status = 200
    /\ up.log[CV_ItunesCall(reqBody)].k = "threw"
    /\ Len(CV_Candidates) = 2
    /\ ~MB_Passes(CV_Candidates, 1, up.log)
    /\ MB_Passes(CV_Candidates, 2, up.log)
    /\ respBody.covers = Arr(<<CV_Candidates[2]>>)

(***************************************************************************)
(* Lyrics lookup.                                                          *)
(***************************************************************************)
LyricsRoutes == {"/api/lyrics", "api/lyrics"}

\* The exact-match endpoint answered with lyrics.
ExactYielded(o) ==
    o.k = "resp" /\ o.ok /\ JsonOf(o).ok /\ LY_HasLyrics(JsonOf(o).v)

\* The exact-match endpoint answered without a match: a status that is not
\* OK, or a body that parses and holds no lyrics.
ExactNoMatch(o) ==
    o.k = "resp" /\ (~o.ok \/ (JsonOf(o).ok /\ ~LY_HasLyrics(JsonOf(o).v)))

\* The search endpoint answered without a match: a status that is not OK, or
\* a body that parses to something else than an array with an element.
SearchNoMatch(o) ==
    o.k = "resp"
    /\ (~o.ok \/ (JsonOf(o).ok /\ ~(IsArray(JsonOf(o).v) /\ Len(JsonOf(o).v.v) > 0)))

\* C13: lyrics lookup asks the exact-match endpoint first and alone; it asks
\* the search endpoint only once the exact match has settled without lyrics;
\* where both endpoints answered and neither gave a match the response is a
\* 200 of {lyrics: null, syncedLyrics: null, source: null}.
C13_ExactThenSearchThenNulls ==
    route \in LyricsRoutes =>
        /\ (pc = "awaitUp" /\ DOMAIN up.log = {}) => up.pending = {LY_ExactCall(reqBody)}
        /\ up.calls["lrclib/search"] > 0 =>
              /\ LY_ExactCall(reqBody) \in DOMAIN up.log
              /\ ~ExactYielded(up.log[LY_ExactCall(reqBody)])
        /\ (/\ pc = "done"
            /\ up.calls["lrclib/get"] > 0
            /\ LY_ExactCall(reqBody) \in DOMAIN up.log
            /\ ExactNoMatch(up.log[LY_ExactCall(reqBody)])) =>
              /\ LY_SearchCall(reqBody) \in DOMAIN up.log
              /\ SearchNoMatch(up.log[LY_SearchCall(reqBody)]) =>
                    /\ status = 200
                    /\ respBody = [lyrics |-> Null, syncedLyrics |-> Null, source |-> Null]

\* C13 witness: the exact-match endpoint answered with a record without
\* lyrics, the search endpoint with an empty list, and the response is the
\* 200 of nulls.
C13_Witness ==
    /\ pc = "done"
    /\ route \in LyricsRoutes
    /\ up.calls["lrclib/search"] > 0
    /\ LY_ExactCall(reqBody) \in DOMAIN up.log
    /\ up.log[LY_ExactCall(reqBody)] = Ok(L_none)
    /\ LY_SearchCall(reqBody) \in DOMAIN up.log
    /\ up.log[LY_SearchCall(reqBody)] = Ok(Arr(<<>>))
    /\ status = 200
    /\ respBody = [lyrics |-> Null, syncedLyrics |-> Null, source |-> Null]

(***************************************************************************)
(* validateBase64Size.                                                     *)
(***************************************************************************)
\* C14: validateBase64Size returns an error string exactly for a string
\* whose estimated decoded size, length * 3 / 4, is greater than maxMB
\* megabytes (3 * length > 4 * maxMB * 1048576), and null otherwise: for a
\* size at the cap and for a value that is no string too.
C14_Base64SizeBoundary ==
    valPc = "called" =>
        (valOut # <<>>
            <=> (IsString(valValue)
                 /\ 3 * StrLength(valValue) > 4 * valMaxMB * 1048576))

\* C14 witness: a string whose estimate is the cap itself passes.
C14_Witness ==
    /\ valPc = "called"
    /\ IsString(valValue)
    /\ valMaxMB > 0
    /\ 3 * StrLength(valValue) = 4 * valMaxMB * 1048576
    /\ valOut = <<>>

(***************************************************************************)
(* The types of a validated result.                                        *)
(***************************************************************************)
\* An array of strings.
StringArray(x) == IsArray(x) /\ \A i \in 1..Len(x.v) : IsString(x.v[i])

\* An array of objects whose fields are strings, the fields of req among
\* them.
RecordArray(x, req) ==
    /\ IsArray(x)
    /\ \A i \in 1..Len(x.v) :
          /\ x.v[i].t = "obj"
          /\ req \subseteq DOMAIN x.v[i].v
          /\ \A k \in DOMAIN x.v[i].v : IsString(x.v[i].v[k])

\* The body of a 200 of find-manual has its five fields with their types.
FindManualTyped(body) ==
    /\ DOMAIN body = {"manual_url", "source", "confidence", "alternative_urls", "search_url"}
    /\ IsString(body.manual_url) \/ body.manual_url = Null
    /\ IsString(body.source)
    /\ body.confidence \in {Str(T_high), Str(T_medium), Str(T_low)}
    /\ StringArray(body.alternative_urls)
    /\ IsString(body.search_url) /\ body.search_url.v # <<>>

\* The body of a 200 of setup-guide has its five arrays with their types.
SetupGuideTyped(body) ==
    /\ DOMAIN body = {"signal_chain", "connections", "settings", "tips", "warnings"}
    /\ StringArray(body.signal_chain)
    /\ RecordArray(body.connections, {"from", "to"})
    /\ RecordArray(body.settings, {"gear", "setting"})
    /\ StringArray(body.tips)
    /\ StringArray(body.warnings)

\* The body of a 200 of playlist has its name and its items with their
\* types.
PlaylistTyped(body) ==
    /\ DOMAIN body = {"playlistName", "items"}
    /\ IsString(body.playlistName) /\ body.playlistName.v # <<>>
    /\ IsArray(body.items)
    /\ \A i \in 1..Len(body.items.v) :
          /\ body.items.v[i].t = "obj"
          /\ \A k \in {"albumId", "artist", "albumTitle", "itemTitle"} :
                IsString(Get(body.items.v[i], k))

\* C15: every 200 of find-manual, of setup-guide and of playlist has every
\* documented field with its declared type.
C15_ValidatedResultTyped ==
    (pc = "done" /\ status = 200) =>
        /\ route = "/api/find-manual" => FindManualTyped(respBody)
        /\ route = "/api/setup-guide" => SetupGuideTyped(respBody)
        /\ route \in PlaylistRoutes => PlaylistTyped(respBody)

\* The same for find-manual and setup-guide alone.
ManualAndGuideTyped ==
    (pc = "done" /\ status = 200) =>
        /\ route = "/api/find-manual" => FindManualTyped(respBody)
        /\ route = "/api/setup-guide" => SetupGuideTyped(respBody)

\* The same for the Express playlist handler alone.
ExpressPlaylistTyped ==
    (pc = "done" /\ status = 200 /\ route = "/api/playlist") => PlaylistTyped(respBody)

(***************************************************************************)
(* Failure responses.                                                      *)
(***************************************************************************)
FailureStatuses == {400, 401, 403, 429, 500, 502}

\* The response is a failure: it is neither a 200 nor the 204 of a
\* preflight request.
IsFailure == pc = "done" /\ status \notin {200, 204}

\* C16: every failure response of a task route has a body whose only key is
\* error, and a status among 400, 401, 403, 429, 500 and 502.
C16_FailureBodyErrorOnly ==
    IsFailure => (DOMAIN respBody = {"error"} /\ status \in FailureStatuses)

\* The same apart from the 405 of a serverless handler, the 500 of
\* discogs-pricing and the 403 of requirePlan.
FailureShapeElsewhere ==
    (/\ IsFailure
     /\ status \notin {403, 405}
     /\ ~(route = "api/discogs-pricing" /\ status = 500)) =>
        (DOMAIN respBody = {"error"} /\ status \in FailureStatuses)

\* The failures of the serverless handlers have a status of the list.
ServerlessStatusListed ==
    (IsFailure /\ route \in ServerlessRoutes) => status \in FailureStatuses

\* The failures of discogs-pricing have a body whose only key is error.
DiscogsFailureErrorOnly ==
    (IsFailure /\ route = "api/discogs-pricing") => DOMAIN respBody = {"error"}

(***************************************************************************)
(* Upstream errors and the response.                                       *)
(***************************************************************************)
\* The settled calls of a second run in which every call that threw has
\* thrown an error of message m instead.
WithErrorMessage(log, m) ==
    [c \in DOMAIN log |-> IF log[c].k = "threw" THEN Threw(m) ELSE log[c]]

\* The response of the request is the one the handler gives where every
\* upstream error has message m.
SameResponseUnder(m) ==
    StepOf(route, reqBody, WithErrorMessage(up.log, m)) = Reply(status, respBody)

\* C17: no response depends on the content of an upstream error: a second
\* run that differs from the request's run in the messages of the errors of
\* its upstream calls alone has the same response, and the response to an
\* error of the model call is the fixed one of the route.
C17_NoUpstreamErrorInResponse ==
    /\ (pc = "done" /\ route \in FetchRoutes /\ DOMAIN up.log # {}) =>
          \A m \in ErrorMessages : SameResponseUnder(m)
    /\ (pc = "done" /\ modelText.k = "threw") =>
          (status = CatchOf(route).status /\ respBody = CatchOf(route).body)

\* The same for the routes other than discogs-pricing.
NoUpstreamErrorElsewhere ==
    route # "api/discogs-pricing" => C17_NoUpstreamErrorInResponse

(***************************************************************************)
(* Rate limiting by route.                                                 *)
(***************************************************************************)
\* C18: rate limiting is per route: the limiter allows or denies a request
\* to a route as a limiter does that has seen the earlier requests of the
\* IP to that route alone, with the route's own maxRequests and
\* windowSeconds.
C18_RateLimitPerRoute ==
    route \in RateLimitedRoutes =>
        /\ pc = "handler" => perRoute.next
        /\ (pc = "done" /\ status = 429) => ~perRoute.next

\* The limiter never allows a request that the limiter of the route alone
\* denies.
SharedStoreNeverLooser ==
    (route \in RateLimitedRoutes /\ pc = "handler") => perRoute.next

(***************************************************************************)
(* The order of the checks of a gated route.                               *)
(***************************************************************************)
\* C19: a gated route verifies the plan before it consults the rate
\* limiter: the limiter runs only for a user whose plan suffices, and a
\* request answered 403 has left the entry of its IP in the limiter's store
\* as it was before the request.
C19_PlanBeforeRateLimit ==
    route \in RateLimitedRoutes =>
        /\ pc = "rateLimit" => (plan \in Plans /\ requirePlan(plan, "curator"))
        /\ (pc = "done" /\ status = 403) => store[ip] = NoEntry

\* A request answered 403 has been counted by the limiter.
DeniedPlanCounted ==
    (route \in RateLimitedRoutes /\ pc = "done" /\ status = 403) => store[ip].count = 1

\* The calls made to endpoint e that differ from one another.
CallsMade(e) == {c \in up.pending \cup DOMAIN up.log : c.ep = e}

\* The endpoints a handler calls once for a request.
LookupEndpoints == {"lrclib/get", "lrclib/search", "itunes", "musicbrainz"}

\* No call is started twice, and every request has one response at most,
\* one when it is over.
StartedOnceAnsweredOnce ==
    /\ modelCalls <= 1
    /\ \A e \in Endpoints : up.calls[e] = Cardinality(CallsMade(e))
    /\ responses <= 1
    /\ pc = "done" => responses = 1

\* C20 as stated: nothing is retried, a request causes at most one model
\* invocation and at most one call per upstream endpoint, and it ends in
\* exactly one response.
C20_OneCallPerEndpoint ==
    /\ StartedOnceAnsweredOnce
    /\ \A e \in Endpoints : up.calls[e] <= 1

\* C20, amended: nothing is retried.  A request causes at most one model
\* invocation and starts no upstream call twice: one call at most to each
\* lookup or search endpoint, one HEAD request per MusicBrainz candidate, one
\* Discogs request per element of release_ids and one update at most for
\* each Discogs request; and it ends in exactly one response.
C20_NothingRetried ==
    /\ StartedOnceAnsweredOnce
    /\ \A e \in LookupEndpoints : up.calls[e] <= 1
    /\ up.calls["coverartarchive"] > 0 =>
          /\ route \in CoverRoutes
          /\ CV_MusicBrainzCall(reqBody) \in DOMAIN up.log
          /\ up.calls["coverartarchive"]
                = Len(MB_Candidates(up.log[CV_MusicBrainzCall(reqBody)]))
    /\ up.calls["discogs"] > 0 =>
          /\ route = "api/discogs-pricing"
          /\ up.calls["discogs"] <= Len(Get(reqBody, "release_ids").v)
          /\ up.calls["supabase"] <= up.calls["discogs"]
    /\ up.calls["supabase"] > 0 => up.calls["discogs"] > 0

\* A request for two releases is over: the first Discogs request threw and
\* was not sent again, the second one was sent, and there is one response.
C20_Witness ==
    /\ pc = "done"
    /\ route = "api/discogs-pricing"
    /\ responses = 1
    /\ up.calls["discogs"] = 2
    /\ Len(Get(reqBody, "release_ids").v) = 2
    /\ up.log[DP_StatsCall(Get(reqBody, "release_ids").v, 1)].k = "threw"
    /\ up.calls["supabase"] = 1

\* A request to a route that calls the model is over after the call threw:
\* one invocation, one response.
ModelFailureAnsweredOnce ==
    /\ pc = "done"
    /\ route \in ModelRoutes
    /\ modelText.k = "threw"
    /\ modelCalls = 1
    /\ responses = 1

\* The last request of the rate limiter was answered 429.
LimDenied == lim.last.key # "none" /\ ~lim.last.next

\* C21: of the requests of one caller to a limiter made with (maxRequests,
\* windowSeconds), at most maxRequests are allowed in a window; every
\* further request in the window is answered 429 with a Retry-After between
\* 1 and windowSeconds; the first request at or after the expiry of a window
\* is allowed and starts a window with count 1.
C21_WindowLimit ==
    /\ \A k \in LimKeys, l \in Limiters : lim.window[k].allowed[l] <= lim.maxRequests[l]
    /\ lim.last.key # "none" =>
          /\ (~lim.last.fresh /\ lim.last.before >= lim.maxRequests[lim.last.limiter])
                => LimDenied
          /\ LimDenied => lim.last.retryAfter \in 1..lim.windowSeconds
          /\ lim.last.fresh =>
                /\ lim.last.next
                /\ lim.store[lim.last.key] =
                      [count |-> 1, expiresAt |-> lim.now + lim.windowSeconds * 1000]

\* A caller is answered 429 with a Retry-After of windowSeconds after
\* maxRequests requests to the limiter were allowed, ...
C21_Witness ==
    /\ LimDenied
    /\ lim.last.before = lim.maxRequests[lim.last.limiter]
    /\ lim.last.before = 2
    /\ lim.last.retryAfter = lim.windowSeconds

\* ... and a caller's request at the expiry of its window starts a new one.
LimWindowRenewed ==
    /\ lim.last.key # "none"
    /\ lim.last.fresh
    /\ lim.now = lim.window[lim.last.key].opened
    /\ lim.now > 0
    /\ lim.calls > 2

\* Only a request beyond maxRequests is answered 429: this is what the one
\* Map of all limiters breaks.
LimDeniedOnlyBeyond == LimDenied => lim.last.before >= lim.maxRequests[lim.last.limiter]

\* The URL of the proxy's request parses, and its hostname is an entry of
\* ALLOWED_HOSTS or ends with a dot and an entry.
PxUrlOnList ==
    /\ px.url.t = "str"
    /\ URL_Parse(px.url.v).ok
    /\ \E i \in 1..Len(ALLOWED_HOSTS) :
          \/ URL_Parse(px.url.v).hostname = ALLOWED_HOSTS[i]
          \/ /\ Len(URL_Parse(px.url.v).hostname) > Len(ALLOWED_HOSTS[i])
             /\ SubSeq(URL_Parse(px.url.v).hostname,
                       Len(URL_Parse(px.url.v).hostname) - Len(ALLOWED_HOSTS[i]),
                       Len(URL_Parse(px.url.v).hostname))
                   = <<".">> \o ALLOWED_HOSTS[i]

\* The proxy fetches the URL of the request alone, once, and only where its
\* host is on the list; it answers 200 only where the content type of the
\* upstream response starts with image/.
PxFetchOnList ==
    /\ px.fetched # <<>> => (PxUrlOnList /\ px.fetched = <<px.url.v>>)
    /\ (px.pc = "done" /\ px.status = 200) =>
          /\ px.fetched # <<>>
          /\ px.outcome.k = "resp"
          /\ px.outcome.contentType.t = "str"
          /\ Len(px.outcome.contentType.v) >= Len(T_imageSlash)
          /\ \A i \in 1..Len(T_imageSlash) : px.outcome.contentType.v[i] = T_imageSlash[i]

\* C22 as stated: the proxy fetches only for URLs whose hostname is on the
\* list; for every other URL it answers 400 or 403 without a fetch; it
\* answers 200 only where the upstream content type starts with image/.
C22_OffListRefused ==
    /\ PxFetchOnList
    /\ (px.pc = "done" /\ ~PxUrlOnList) => (px.status \in {400, 403} /\ px.fetched = <<>>)

\* C22, amended: the proxy fetches only for URLs whose hostname is on the
\* list; for every other URL it makes no fetch and answers a GET request
\* with 400 or 403, and the serverless handler answers an OPTIONS request
\* with 204 and a request of another method with 405, whatever the URL; it
\* answers 200 only where the upstream content type starts with image/.
C22_OffListNeverFetched ==
    /\ PxFetchOnList
    /\ (px.pc = "done" /\ ~PxUrlOnList) =>
          /\ px.fetched = <<>>
          /\ px.method = "GET" => px.status \in {400, 403}
          /\ px.method = "OPTIONS" => px.status = 204
          /\ px.method = "POST" => px.status = 405
    /\ (px.pc = "done" /\ px.method # "GET") => (px.fetched = <<>> /\ px.status \in {204, 405})

\* A GET request for a URL whose hostname ends with an entry but not with a
\* dot and the entry was answered 403 without a fetch, ...
C22_Witness ==
    /\ px.pc = "done"
    /\ px.method = "GET"
    /\ px.url.t = "str"
    /\ URL_Parse(px.url.v).ok
    /\ EndsWith(URL_Parse(px.url.v).hostname, H_coverartarchive)
    /\ ~PxUrlOnList
    /\ px.status = 403
    /\ px.fetched = <<>>

\* ... and a URL on a subdomain of an entry was fetched and answered 200.
PxSubdomainServed ==
    /\ px.pc = "done"
    /\ px.status = 200
    /\ PxUrlOnList
    /\ URL_Parse(px.url.v).hostname \notin {ALLOWED_HOSTS[i] : i \in 1..Len(ALLOWED_HOSTS)}

\* The elements of the model's array under key k that are objects whose
\* fields a and b are strings, in order; none where the value is no array.
WellFormed(k, a, b) ==
    IF ModelValue(k).t = "arr"
    THEN SelectSeq(ModelValue(k).v,
                   LAMBDA e : e.t = "obj" /\ Get(e, a).t = "str" /\ Get(e, b).t = "str")
    ELSE <<>>

\* The array out of the response holds the elements of kept in order, their
\* fields a and b as they are and every field of others a string.
ReturnedInOrder(out, kept, a, b, others) ==
    /\ out.t = "arr"
    /\ Len(out.v) = Len(kept)
    /\ \A i \in 1..Len(kept) :
          /\ Get(out.v[i], a) = Get(kept[i], a)
          /\ Get(out.v[i], b) = Get(kept[i], b)
          /\ \A f \in others : Get(out.v[i], f).t = "str"

\* The model's text parsed to an object for a request to setup-guide that
\* has its response.
GuideValidated ==
    pc = "done" /\ route = "/api/setup-guide" /\ modelText.k \in {"json", "absent"}
    /\ ModelData.t = "obj"

\* What C23 asks of a validated guide: the malformed elements of connections
\* and of settings are dropped and the others returned, and the request
\* fails only where signal_chain and connections are both empty once
\* repaired.
ElementsDropped ==
    IF RepairedStringsAll(ModelValue("signal_chain")) = <<>>
       /\ WellFormed("connections", "from", "to") = <<>>
    THEN status = 500
    ELSE /\ status = 200
         /\ ReturnedInOrder(respBody.connections, WellFormed("connections", "from", "to"),
                            "from", "to", {"cable_type", "connection_type", "notes"})
         /\ ReturnedInOrder(respBody.settings, WellFormed("settings", "gear", "setting"),
                            "gear", "setting", {"recommended_value", "explanation"})

\* C23: in setup-guide every element of connections (of settings) that is
\* no object with string from and to (gear and setting), null and primitive
\* elements included, is dropped, the well-formed elements are returned in
\* order with every sub-field a string, and a malformed element never makes
\* the request fail.
C23_MalformedDropped == GuideValidated => ElementsDropped

\* An array of the model holds a null element.
HasNullElement(k) ==
    ModelValue(k).t = "arr" /\ \E i \in 1..Len(ModelValue(k).v) : ModelValue(k).v[i].t = "null"

\* Without null elements the code does what C23 says.
DroppedWhereNoNull ==
    (GuideValidated /\ ~HasNullElement("connections") /\ ~HasNullElement("settings"))
        => ElementsDropped

\* A primitive element and an object without to were dropped from
\* connections and the request was answered 200.
PrimitiveDropped ==
    /\ GuideValidated
    /\ status = 200
    /\ ModelValue("connections").t = "arr"
    /\ Len(ModelValue("connections").v) = 2
    /\ ModelValue("connections").v[1].t = "num"
    /\ respBody.connections.t = "arr"
    /\ Len(respBody.connections.v) = 1

\* generateContent has returned a text to the handler of the request.
ModelAnswered == route \in ModelRoutes /\ modelText.k \in {"absent", "garbage", "json"}

\* The request has one response, a 200 or a 500 whose body is an error alone.
ResultOrError ==
    /\ pc = "done"
    /\ responses = 1
    /\ status \in {200, 500}
    /\ status = 500 => DOMAIN respBody = {"error"}

\* C24: for every text of the model, unparsable or parsed to any JSON
\* value, each handler that calls the model sends exactly one response, the
\* task's result or a 500 with an error body; find-manual answers every such
\* text with a 200 that carries a search URL.
C24_EveryTextAnswered ==
    ModelAnswered =>
        /\ ResultOrError
        /\ route = "/api/find-manual" =>
              (status = 200 /\ respBody.search_url.t = "str" /\ respBody.search_url.v # <<>>)

\* Every text of the model gets one response, a 200 or a 500 with an error.
EveryTextOneResponse == ModelAnswered => ResultOrError

\* find-manual answers 200 with a search URL unless the text parses to null.
ManualFallbackUnlessNull ==
    (ModelAnswered /\ route = "/api/find-manual" /\ ModelData.t # "null") =>
        (status = 200 /\ respBody.search_url.t = "str" /\ respBody.search_url.v # <<>>)

\* identify answers a text that parses to null with its 500.
IdentifyNullAnswered ==
    /\ ModelAnswered
    /\ route = "api/identify"
    /\ ModelData.t = "null"
    /\ status = 500
    /\ responses = 1

\* The result of the sanitizer holds no backtick and has no white space at
\* its ends.
NoBacktickTrimmed ==
    sanPc = "called" =>
        /\ \A i \in 1..Len(sanOut) : sanOut[i] # Backtick
        /\ sanOut # <<>> => (sanOut[1] \notin WhiteSpace /\ sanOut[Len(sanOut)] \notin WhiteSpace)

\* The result of the sanitizer holds three newlines in a row.
NewlineRunLeft ==
    \E i \in 1..(Len(sanOut) - 2) :
        sanOut[i] = "\n" /\ sanOut[i + 1] = "\n" /\ sanOut[i + 2] = "\n"

\* C25: for every input s and cap n the result of sanitizePromptInput(s, n)
\* holds no backtick and no run of three or more newlines and has no white
\* space at its start or end.
C25_NoBacktickNoRunTrimmed ==
    /\ NoBacktickTrimmed
    /\ sanPc = "called" => ~NewlineRunLeft

\* A run of newlines of the input was collapsed and none is in the result.
RunCollapsed ==
    /\ sanPc = "called"
    /\ \E i \in 1..(Len(sanS \o sanP) - 2) :
          \A j \in i..(i + 2) : (sanS \o sanP)[j] = "\n"
    /\ Len(sanOut) > 3
    /\ ~NewlineRunLeft

\* The model's playlist name, trimmed; <<>> where it is missing or no string.
TrimmedName ==
    IF ModelValue("playlistName").t = "str" THEN Trim(ModelValue("playlistName").v) ELSE <<>>

\* C26: the playlistName of a 200 of the Express playlist handler is a
\* non-empty string of at most 60 characters: the model's trimmed name where
\* that is a non-empty string of at most 60 characters, its first 57
\* characters and '...' where it is longer, 'Crate Mix' where the model's
\* name is missing, no string, or empty once trimmed.
C26_PlaylistNameCapped ==
    (pc = "done" /\ route = "/api/playlist" /\ status = 200) =>
        /\ respBody.playlistName.t = "str"
        /\ Len(respBody.playlistName.v) \in 1..60
        /\ respBody.playlistName.v =
              IF TrimmedName = <<>> THEN <<"C","r","a","t","e"," ","M","i","x">>
              ELSE IF Len(TrimmedName) <= 60 THEN TrimmedName
              ELSE SubSeq(TrimmedName, 1, 57) \o <<".",".",".">>

\* A name of 61 characters was answered as its first 57 and three dots, ...
C26_Witness ==
    /\ pc = "done"
    /\ route = "/api/playlist"
    /\ status = 200
    /\ Len(TrimmedName) = 61
    /\ Len(respBody.playlistName.v) = 60
    /\ respBody.playlistName.v[58] = "."

\* ... and a name of 60 characters after a space was answered whole.
NameTrimmedBeforeCap ==
    /\ pc = "done"
    /\ route = "/api/playlist"
    /\ status = 200
    /\ ModelValue("playlistName").t = "str"
    /\ Len(ModelValue("playlistName").v) = 61
    /\ respBody.playlistName.v = TrimmedName
    /\ Len(TrimmedName) = 60

\* Request i of GET /api/prices arrives in this step.
PriceArrives(i) == prc.reqs[i].pc = "idle" /\ prc'.reqs[i].pc # "idle"

\* The call of Stripe of request i settles in this step.
PriceSettles(i) == prc.reqs[i].pc = "await" /\ prc'.reqs[i].pc = "done"

\* What C27 asks of a step of the server.
PriceCacheStep ==
    /\ \A i \in 1..MaxPriceRequests :
          /\ (PriceArrives(i) /\ prc.cache.cachedPrices # Null
                /\ prc'.reqs[i].start < prc.cache.cacheExpiry) =>
                 /\ prc'.reqs[i].pc = "done"
                 /\ prc'.reqs[i].status = 200
                 /\ prc'.reqs[i].body = prc.cache.cachedPrices
                 /\ prc'.calls = prc.calls
          /\ (PriceSettles(i) /\ prc'.reqs[i].o.k = "threw") =>
                 /\ prc'.reqs[i].status = 500
                 /\ prc'.cache = prc.cache
    /\ prc'.cache # prc.cache =>
          \E i \in 1..MaxPriceRequests :
              /\ PriceSettles(i)
              /\ prc'.reqs[i].o.k = "listed"
              /\ prc'.cache.cacheExpiry = prc.reqs[i].start + 5 * 60 * 1000
    /\ (\E i \in 1..MaxPriceRequests : PriceSettles(i) /\ prc'.reqs[i].o.k = "listed") =>
          \E i \in 1..MaxPriceRequests :
              /\ PriceSettles(i)
              /\ prc'.cache = [cachedPrices |-> prc'.reqs[i].body,
                              cacheExpiry |-> prc.reqs[i].start + 5 * 60 * 1000]

\* C27: over any sequence of requests to GET /api/prices, a request that
\* arrives while a cached value exists and now < cacheExpiry is answered
\* with the cached value without a call of Stripe; cachedPrices and
\* cacheExpiry change only when a call of Stripe succeeds, which sets
\* cacheExpiry to the start time of its request plus 5 minutes; a failed
\* call is answered 500 and leaves both unchanged.
C27_CacheFrame == [][PriceCacheStep]_vars

\* The first request filled the cache, the second was answered from it one
\* millisecond before its expiry, and the third, at the expiry, called
\* Stripe, which failed: the cache is the one the first request left.
C27_Witness ==
    /\ prc.reqs[1].pc = "done" /\ prc.reqs[1].o.k = "listed" /\ prc.reqs[1].status = 200
    /\ prc.reqs[2].pc = "done" /\ prc.reqs[2].status = 200
    /\ prc.reqs[2].start = prc.reqs[1].start + CACHE_TTL_MS - 1
    /\ prc.reqs[2].body = prc.reqs[1].body
    /\ prc.reqs[3].pc = "done" /\ prc.reqs[3].status = 500
    /\ prc.calls = 2
    /\ prc.cache = PR_Cache(prc.reqs[1].body, prc.reqs[1].start + CACHE_TTL_MS)
    /\ prc.cache.cachedPrices # [tiers |-> <<>>]

\* The request is one of discogs-pricing whose handler has read its body.
PricingBegun == route = "api/discogs-pricing" /\ reqBody # Undefined

\* release_ids is an array of 1 to 50 elements.
ValidReleaseIds ==
    /\ Get(reqBody, "release_ids").t = "arr"
    /\ Len(Get(reqBody, "release_ids").v) \in 1..50

ReleaseIds == Get(reqBody, "release_ids").v

\* The calls made so far for release i.
ReleaseCalls(i) == {c \in up.pending \cup DOMAIN up.log : c.i = i}

\* Release i is processed: its stats request has settled, and so has the
\* update that follows a stats request that gave prices.
ReleaseProcessed(i) ==
    /\ ReleaseCalls(i) # {}
    /\ ReleaseCalls(i) \subseteq DOMAIN up.log

\* Release i failed: it is processed, and no update of the database ended
\* without an error for it.
ReleaseFailed(i) ==
    /\ ReleaseProcessed(i)
    /\ ~\E c \in ReleaseCalls(i) : c.ep = "supabase" /\ up.log[c].k = "resp" /\ up.log[c].ok

\* The releases that failed, in the order of the array.
RECURSIVE FailedFrom(_)
FailedFrom(i) ==
    IF i > Len(ReleaseIds) THEN <<>>
    ELSE (IF ReleaseFailed(i) THEN <<i>> ELSE <<>>) \o FailedFrom(i + 1)

\* One release at a time, in the order of the array: one call is pending at
\* most, it asks for the element of its index, every release before it is
\* processed, and the update of a release follows its settled stats request.
OneReleaseAtATime ==
    /\ Cardinality(up.pending) <= 1
    /\ \A c \in up.pending \cup DOMAIN up.log :
          /\ c.i \in 1..Len(ReleaseIds)
          /\ c.q = ReleaseIds[c.i]
          /\ c.ep \in {"discogs", "supabase"}
          /\ \A h \in 1..(c.i - 1) : ReleaseProcessed(h)
          /\ c.ep = "supabase" =>
                \E d \in DOMAIN up.log : d.ep = "discogs" /\ d.i = c.i /\ up.log[d].k = "resp"

\* The 200 response counts every release once: as updated, or with one
\* entry of errors that names it, in the order of the array.
EveryReleaseCounted ==
    /\ \A i \in 1..Len(ReleaseIds) : ReleaseProcessed(i)
    /\ respBody.updated.v + Len(respBody.errors.v) = Len(ReleaseIds)
    /\ Len(respBody.errors.v) = Len(FailedFrom(1))
    /\ \A k \in 1..Len(FailedFrom(1)) :
          /\ respBody.errors.v[k][1] = "Release "
          /\ respBody.errors.v[k][2] = ReleaseIds[FailedFrom(1)[k]]

\* C28: in the discogs-pricing handler, for an array release_ids of 1 to 50
\* elements the releases are processed one at a time in the order of the
\* array, a failed fetch or update of one release does not end the
\* processing of the later ones, and the 200 response has updated +
\* errors.length = n with one entry of errors per failed release; a
\* release_ids that is empty, longer than 50 or no array is answered 400
\* with no upstream call made.
C28_EveryReleaseCounted ==
    PricingBegun =>
        IF ValidReleaseIds
        THEN /\ OneReleaseAtATime
             /\ (pc = "done" /\ status = 200) => EveryReleaseCounted
             /\ (pc = "done" /\ DOMAIN up.log # {}) => status = 200
        ELSE /\ pc = "done" => status = 400
             /\ \A e \in Endpoints : up.calls[e] = 0
             /\ up.pending = {} /\ DOMAIN up.log = {}

\* Two releases: the stats request of the first failed, the second was
\* updated, and the response counts one of each.
C28_Witness ==
    /\ PricingBegun /\ ValidReleaseIds /\ pc = "done" /\ status = 200
    /\ Len(ReleaseIds) = 2
    /\ FailedFrom(1) = <<1>>
    /\ respBody.updated.v = 1
    /\ Len(respBody.errors.v) = 1

\* A release_ids of 51 elements was answered 400.
OversizedRefused ==
    /\ PricingBegun /\ pc = "done" /\ status = 400
    /\ Get(reqBody, "release_ids").t = "arr"
    /\ Len(Get(reqBody, "release_ids").v) = 51

\* The update of the first release threw, and the second was processed.
UpdateThrewLoopWentOn ==
    /\ PricingBegun /\ ValidReleaseIds /\ pc = "done" /\ status = 200
    /\ \E c \in DOMAIN up.log : c.ep = "supabase" /\ c.i = 1 /\ up.log[c].k = "threw"
    /\ ReleaseProcessed(2)

\* A lyrics lookup was answered with a result.
LyricsAnswered ==
    /\ route \in LyricsRoutes
    /\ pc = "done"
    /\ status = 200
    /\ "source" \in DOMAIN respBody

LyricsFieldsNull == respBody.lyrics = Null /\ respBody.syncedLyrics = Null

\* C29: in lyrics lookup, a response whose source is not null
\* ('lrclib-exact' or 'lrclib-search') carries at least one field that is
\* not null among lyrics and syncedLyrics; a result with both fields null
\* has source null.
C29_SourceMeansLyrics ==
    LyricsAnswered => (respBody.source # Null => ~LyricsFieldsNull)

\* The part of C29 the exact match keeps: a response of source
\* 'lrclib-exact' carries lyrics or synced lyrics.
ExactSourceMeansLyrics ==
    LyricsAnswered => (respBody.source = Str(T_lrclibExact) => ~LyricsFieldsNull)

\* A response names a source exactly where its fields come from a record of
\* LRCLIB: both fields null with a source happens for the first result of
\* the search alone.
NullFieldsFromSearchOnly ==
    (LyricsAnswered /\ respBody.source # Null /\ LyricsFieldsNull) =>
        /\ respBody.source = Str(T_lrclibSearch)
        /\ LY_SearchCall(reqBody) \in DOMAIN up.log
        /\ ~LY_HasLyrics(JsonOf(up.log[LY_SearchCall(reqBody)]).v.v[1])

\* The first result of the search has no lyrics, and the response names
\* the search as its source with both fields null.
SearchWithoutLyricsNamed ==
    /\ LyricsAnswered
    /\ respBody = [lyrics |-> Null, syncedLyrics |-> Null, source |-> Str(T_lrclibSearch)]
    /\ up.log[LY_SearchCall(reqBody)] = Ok(Arr(<<L_none, L_both>>))

\* The items the wantlist was loaded with.
WantlistLoaded == 1..wl.loaded

\* The items shown.
WantlistShown == {wl.wantlist[k] : k \in 1..Len(wl.wantlist)}

\* Every request of handleRemove has completed.
RemovalsCompleted == wl.pc = "shown" /\ \A id \in 1..MaxWantlist : wl.calls[id].pc # "pending"

\* C30: in WantlistView, under any interleaving of calls of handleRemove
\* and completions of their requests, once every request has completed the
\* wantlist shown holds the items whose removal did not succeed and no
\* other: an item the server removed is absent, and an item whose removal
\* failed is present.
C30_ShownAreNotRemoved ==
    RemovalsCompleted =>
        \A id \in 1..MaxWantlist :
            /\ wl.calls[id].pc = "removed" => id \notin WantlistShown
            /\ wl.calls[id].pc = "failed" => id \in WantlistShown

\* What holds of the wantlist shown: it has no item twice, an item leaves
\* it only by a call of handleRemove, and where no removal failed it holds
\* the items that were not removed.
ShownWithoutFailure ==
    wl.pc = "shown" =>
        /\ Cardinality(WantlistShown) = Len(wl.wantlist)
        /\ \A id \in 1..MaxWantlist :
              (wl.calls[id].pc = "idle" /\ id \in WantlistLoaded) => id \in WantlistShown
        /\ (\A id \in 1..MaxWantlist : wl.calls[id].pc # "failed") =>
              \A id \in 1..MaxWantlist : wl.calls[id].pc # "idle" => id \notin WantlistShown

\* The removal of item 2 succeeded and the removal of item 1, started
\* before it, failed after it: the rollback shows item 2 again.
RemovedItemShownAgain ==
    /\ RemovalsCompleted
    /\ wl.calls[1].pc = "failed"
    /\ wl.calls[2].pc = "removed"
    /\ 2 \in WantlistShown

\* The removals of items 1 and 2 both failed, and item 1 is not shown.
FailedItemMissing ==
    /\ RemovalsCompleted
    /\ wl.calls[1].pc = "failed"
    /\ wl.calls[2].pc = "failed"
    /\ 1 \notin WantlistShown

====
